---- MODULE Spec2Model ----
(***************************************************************************)
(* Model of RedisService (src/src/services/redis.rs): typed hash records,  *)
(* pub/sub broadcasts and the mutate-then-broadcast operations built on    *)
(* them, run by concurrent callers against one Redis store.                *)
(*                                                                         *)
(* A Rust String is a sequence of tokens, format!() is concatenation, a    *)
(* JSON text is the tree serde_json writes, a hash bucket is a function    *)
(* from its present fields to JSON texts, a sorted set a function from its *)
(* members to their scores.  Pub/sub keeps nothing: a                      *)
(* channel shows the message last published on it, and `view` is what a    *)
(* subscriber that applies every message of the channel has accumulated.   *)
(* Every store call of an operation is one atomic step that succeeds,      *)
(* fails to get a connection, or fails at the command; steps of different  *)
(* callers interleave freely.                                              *)
(***************************************************************************)
EXTENDS Integers, Sequences, FiniteSets, TLC

VARIABLES
    store,      \* Redis keys: hash key -> (field -> JSON text), zset key -> (member -> score)
    ttl,        \* Redis expiry: key -> seconds left to live, 0 for a key that does not expire
    chan,       \* Redis pub/sub: channel name -> the message last published on it
    view,       \* history: per channel, what a subscriber applying every message holds
    pc,         \* per caller: the call in progress, its remaining and completed store calls
    ncalls,     \* number of calls begun so far
    overlap,    \* history: some call began while another one was in progress
    failed,     \* history: some store call failed
    last,       \* history: the most recently completed call and its result
    log,        \* history, kept where `on`: the completed calls and elapsed seconds in order
    wire        \* a stream payload on its way: the value sent, its present form and stage

vars == <<store, ttl, chan, view, pc, ncalls, overlap, failed, last, log, wire>>

\* ------------------------------------------------------------------ bounds

\* calls begun in one run: of one entity kind, of every operation, and of
\* every operation and store method over a store that holds records
MaxCalls == 2
MaxCallsAll == 2
MaxCallsEvery == 1

Procs == {"c1", "c2"}

Nodes == {<<"n1">>, <<"n2">>}
UUIDs == {<<"u1">>}
Sessions == {<<"s1">>, <<"s2">>}
IPs == {1, 2}
UserAddrs == {<<"a1">>, <<"a2">>}
Rates == {1, 2}
AccIds == {<<"x1">>, <<"x2">>}
Passwords == {<<"pw1">>, <<"pw2">>}

\* ------------------------------------------------------- strings and JSON

Digit(d) == CASE d = 0 -> "0" [] d = 1 -> "1" [] d = 2 -> "2" [] d = 3 -> "3"
              [] d = 4 -> "4" [] d = 5 -> "5" [] d = 6 -> "6" [] d = 7 -> "7"
              [] d = 8 -> "8" [] d = 9 -> "9"

DigitVal(c) == CHOOSE d \in 0..9 : Digit(d) = c

RECURSIVE fmt_u32(_)
\* format!("{}", n) of an unsigned integer: its decimal digits
fmt_u32(n) == IF n < 10 THEN <<Digit(n)>> ELSE fmt_u32(n \div 10) \o <<Digit(n % 10)>>

RECURSIVE parse_u32(_)
\* the number a sequence of decimal digits denotes
parse_u32(s) == IF Len(s) = 0 THEN 0
                ELSE 10 * parse_u32(SubSeq(s, 1, Len(s) - 1)) + DigitVal(s[Len(s)])

JStr(s) == <<"str", s>>
JNum(n) == <<"num", fmt_u32(n)>>
IsJStr(j) == Len(j) = 2 /\ j[1] = "str"
IsJNum(j) == Len(j) = 2 /\ j[1] = "num"
\* a JSON object with the given member names, in order
IsJObj(j, names) ==
    /\ Len(j) = Len(names) + 1
    /\ j[1] = "obj"
    /\ \A i \in 1..Len(names) : j[i + 1][1] = names[i]

DecodeErr == [ok |-> FALSE]
Decoded(v) == [ok |-> TRUE, val |-> v]

\* #[derive(Serialize)] struct PeerChangedInfo { uuid, login_session_id, ip_u32 }
to_string_PeerChangedInfo(info) ==
    <<"obj", <<"uuid", JStr(info.uuid)>>,
             <<"login_session_id", JStr(info.login_session_id)>>,
             <<"ip_u32", JNum(info.ip_u32)>> >>

from_str_PeerChangedInfo(j) ==
    IF /\ IsJObj(j, <<"uuid", "login_session_id", "ip_u32">>)
       /\ IsJStr(j[2][2]) /\ IsJStr(j[3][2]) /\ IsJNum(j[4][2])
    THEN Decoded([uuid |-> j[2][2][2], login_session_id |-> j[3][2][2],
                  ip_u32 |-> parse_u32(j[4][2][2])])
    ELSE DecodeErr

\* #[derive(Serialize)] enum PeerChanged { Connected(info), Disconnected(info) }
to_string_PeerChanged(status) ==
    <<"obj", <<status.tag, to_string_PeerChangedInfo(status.info)>> >>

from_str_PeerChanged(j) ==
    IF Len(j) = 2 /\ j[1] = "obj" /\ j[2][1] \in {"Connected", "Disconnected"}
       /\ from_str_PeerChangedInfo(j[2][2]).ok
    THEN Decoded([tag |-> j[2][1], info |-> from_str_PeerChangedInfo(j[2][2]).val])
    ELSE DecodeErr

\* #[derive(Serialize)] struct UserBandwidthPrice { user_addr, rate_per_kb, rate_per_second }
to_string_UserBandwidthPrice(price) ==
    <<"obj", <<"user_addr", JStr(price.user_addr)>>,
             <<"rate_per_kb", JNum(price.rate_per_kb)>>,
             <<"rate_per_second", JNum(price.rate_per_second)>> >>

from_str_UserBandwidthPrice(j) ==
    IF /\ IsJObj(j, <<"user_addr", "rate_per_kb", "rate_per_second">>)
       /\ IsJStr(j[2][2]) /\ IsJNum(j[3][2]) /\ IsJNum(j[4][2])
    THEN Decoded([user_addr |-> j[2][2][2], rate_per_kb |-> parse_u32(j[3][2][2]),
                  rate_per_second |-> parse_u32(j[4][2][2])])
    ELSE DecodeErr

\* #[derive(Serialize)] struct UserTask { user_addr }
to_string_UserTask(provider) == <<"obj", <<"user_addr", JStr(provider.user_addr)>> >>

from_str_UserTask(j) ==
    IF IsJObj(j, <<"user_addr">>) /\ IsJStr(j[2][2])
    THEN Decoded([user_addr |-> j[2][2][2]])
    ELSE DecodeErr

\* an f64: a finite number, here a whole one, or a non-finite one
f64(n) == [finite |-> TRUE, n |-> n]
f64_INFINITY == [finite |-> FALSE, n |-> 0]

\* serde_json writes a finite f64 with its fraction and a non-finite one as null
JF64(x) == IF x.finite THEN <<"num", fmt_u32(x.n) \o <<".0">> >> ELSE <<"null">>
IsJF64(j) == IsJNum(j)
parse_f64(s) == IF s[Len(s)] = ".0" THEN f64(parse_u32(SubSeq(s, 1, Len(s) - 1)))
                ELSE f64(parse_u32(s))

\* #[derive(Serialize)] struct BonusConfig { country_geoname_id, country_name,
\* bonus_amount, created_at, updated_at }
to_string_BonusConfig(config) ==
    <<"obj", <<"country_geoname_id", JNum(config.country_geoname_id)>>,
             <<"country_name", JStr(config.country_name)>>,
             <<"bonus_amount", JF64(config.bonus_amount)>>,
             <<"created_at", JNum(config.created_at)>>,
             <<"updated_at", JNum(config.updated_at)>> >>

from_str_BonusConfig(j) ==
    IF /\ IsJObj(j, <<"country_geoname_id", "country_name", "bonus_amount",
                      "created_at", "updated_at">>)
       /\ IsJNum(j[2][2]) /\ IsJStr(j[3][2]) /\ IsJF64(j[4][2])
       /\ IsJNum(j[5][2]) /\ IsJNum(j[6][2])
    THEN Decoded([country_geoname_id |-> parse_u32(j[2][2][2]),
                  country_name |-> j[3][2][2],
                  bonus_amount |-> parse_f64(j[4][2][2]),
                  created_at |-> parse_u32(j[5][2][2]),
                  updated_at |-> parse_u32(j[6][2][2])])
    ELSE DecodeErr

JArr(items) == <<"arr">> \o items
IsJArr(j) == Len(j) >= 1 /\ j[1] = "arr"

\* a Duration is written as its seconds and nanoseconds
to_string_Duration(secs) == <<"obj", <<"secs", JNum(secs)>>, <<"nanos", JNum(0)>> >>

\* the proxy account record: the account identifier publish_proxy_acc keys it
\* by, username and password, rotation period, IP allow-list
to_string_ProxyAccData(pad) ==
    <<"obj", <<"id", JStr(pad.id)>>,
             <<"username", JStr(pad.username)>>,
             <<"password", JStr(pad.password)>>,
             <<"ip_rotation_period", to_string_Duration(pad.ip_rotation_period)>>,
             <<"whitelist_ip_list",
               JArr([i \in 1..Len(pad.whitelist_ip_list) |-> JStr(pad.whitelist_ip_list[i])])>> >>

from_str_ProxyAccData(j) ==
    IF /\ IsJObj(j, <<"id", "username", "password", "ip_rotation_period", "whitelist_ip_list">>)
       /\ IsJStr(j[2][2]) /\ IsJStr(j[3][2]) /\ IsJStr(j[4][2])
       /\ IsJObj(j[5][2], <<"secs", "nanos">>) /\ IsJNum(j[5][2][2][2])
       /\ IsJArr(j[6][2]) /\ \A i \in 2..Len(j[6][2]) : IsJStr(j[6][2][i])
    THEN Decoded([id |-> j[2][2][2], username |-> j[3][2][2], password |-> j[4][2][2],
                  ip_rotation_period |-> parse_u32(j[5][2][2][2][2]),
                  whitelist_ip_list |-> [i \in 1..(Len(j[6][2]) - 1) |-> j[6][2][i + 1][2]]])
    ELSE DecodeErr

\* enum ProxyAccChanged { Created(pad), Updated(pad), Deleted(id), RefreshAll() }
to_string_ProxyAccChanged(change) ==
    CASE change.tag \in {"Created", "Updated"} ->
            <<"obj", <<change.tag, to_string_ProxyAccData(change.arg)>> >>
      [] change.tag = "Deleted" -> <<"obj", <<"Deleted", JStr(change.arg)>> >>
      [] change.tag = "RefreshAll" -> <<"obj", <<"RefreshAll", <<"arr">> >> >>

from_str_ProxyAccChanged(j) ==
    IF ~(Len(j) = 2 /\ j[1] = "obj") THEN DecodeErr
    ELSE CASE j[2][1] \in {"Created", "Updated"} ->
                IF from_str_ProxyAccData(j[2][2]).ok
                THEN Decoded([tag |-> j[2][1], arg |-> from_str_ProxyAccData(j[2][2]).val])
                ELSE DecodeErr
           [] j[2][1] = "Deleted" ->
                IF IsJStr(j[2][2]) THEN Decoded([tag |-> "Deleted", arg |-> j[2][2][2]])
                ELSE DecodeErr
           [] j[2][1] = "RefreshAll" ->
                IF j[2][2] = <<"arr">> THEN Decoded([tag |-> "RefreshAll", arg |-> <<>>])
                ELSE DecodeErr
           [] OTHER -> DecodeErr

\* ---------------------------------------------------------- DPNRedisKey

\* format!("{}_{}", masternode_id, login_session_id): the two ids, one '_' between
get_geo_kf(masternode_id, login_session_id) ==
    << <<"peer_geo">>, masternode_id \o <<"_">> \o login_session_id >>

get_balance_kf(user_addr) == << <<"client_user_balance">>, user_addr >>

get_uptime_xp_kf(id) == << <<"uptime_xp">>, id >>

get_peer_queue_k(masternode_id) == <<"peer_queue_ms#">> \o masternode_id \o <<"_">>

\* a bucket per peer address
get_peers_kf_by_ip(masternode_id, ip_u32) ==
    << <<"peers_ms#">> \o masternode_id \o fmt_u32(ip_u32), fmt_u32(ip_u32) >>

get_peers_kf(masternode_id, ip_u32) ==
    << <<"peers_ms#">> \o masternode_id, fmt_u32(ip_u32) >>

\* one channel for the peers of all nodes
get_peers_chan_shared(masternode_id) == <<"peers_updated_ms#">>

get_peers_chan(masternode_id) == <<"peers_updated_ms#">> \o masternode_id

get_price_kf(peer_addr) == << <<"peer_price">>, peer_addr >>

get_proxy_acc_kf(id) == << <<"proxy_acc">>, id >>

get_proxy_acc_chan == <<"proxy_acc_updated">>

get_price_chan == <<"price_updated">>

get_first_time_provider_kf(id) == << <<"first_time_provider">>, id >>

get_first_time_provider_chan == <<"first_time_provider_updated">>

get_withdrawal_reward_kf(id) == << <<"withdrawal_reward">>, id >>

\* the channel of another milestone kind
get_withdrawal_reward_chan_shared == <<"first_time_provider_updated">>

get_withdrawal_reward_chan == <<"withdrawal_reward_updated">>

get_completed_8_hours_ot_kf(id) == << <<"completed_8_hours_ot">>, id >>

get_completed_8_hours_ot_chan == <<"completed_8_hours_dl_updated">>

get_invite_friend_one_time_kf(id) == << <<"invite_friend_one_time">>, id >>

get_invite_friend_one_time_chan == <<"invite_friend_one_time_updated">>

get_completed_time_per_day_kf(id) == << <<"completed_time_per_day">>, id >>

get_completed_time_per_day_chan == <<"completed_time_per_day_updated">>

get_user_addr_geo_kf(user_addr) == << <<"user_addr_geo">>, user_addr >>

get_bonus_config_hash_key == <<"bonus_config">>

PeerChans == {get_peers_chan(n) : n \in Nodes}

TaskChans == {get_first_time_provider_chan, get_withdrawal_reward_chan,
              get_completed_8_hours_ot_chan, get_invite_friend_one_time_chan,
              get_completed_time_per_day_chan}

\* every key and every channel name the operations can name
Buckets ==
    {get_peers_kf(n, 0)[1] : n \in Nodes}
    \cup {get_peer_queue_k(n) : n \in Nodes}
    \cup {get_user_addr_geo_kf(<<>>)[1], get_geo_kf(<<>>, <<>>)[1], get_balance_kf(<<>>)[1],
          get_uptime_xp_kf(<<>>)[1], get_bonus_config_hash_key}
    \cup {get_price_kf(<<>>)[1], get_proxy_acc_kf(<<>>)[1], get_first_time_provider_kf(<<>>)[1],
          get_withdrawal_reward_kf(<<>>)[1], get_completed_8_hours_ot_kf(<<>>)[1],
          get_invite_friend_one_time_kf(<<>>)[1], get_completed_time_per_day_kf(<<>>)[1]}

Channels == PeerChans \cup TaskChans \cup {get_price_chan, get_proxy_acc_chan}

\* ------------------------------------------------------ results and errors

Unit == <<>>
NoErr == <<>>
Ok(v) == [ok |-> TRUE, val |-> v, err |-> NoErr]
Err(msg) == [ok |-> FALSE, val |-> Unit, err |-> msg]

\* how one store call ends: it takes effect, client.get_connection() fails,
\* or the command itself fails; a failed call leaves the store as it was
Outcomes == {"ok", "conn", "cmd"}

\* a command sent on the connection its method already holds cannot fail to connect
OutcomesOf(c) == IF c.via = "method" THEN Outcomes ELSE Outcomes \ {"conn"}

RedisError == <<"<e>">>
ConnErr == <<"cannot get connection err=">> \o RedisError

\* ------------------------------------------------- the store primitives

EmptyHash == <<>>

HashWithout(h, field) ==
    IF DOMAIN h \ {field} = {} THEN EmptyHash
    ELSE [f \in DOMAIN h \ {field} |-> h[f]]

\* HSETNX in place of HSET: a field that is present keeps its value
hset_if_absent(st, key, field, val) == [st EXCEPT ![key] = st[key] @@ (field :> val)]

\* HSET key field value: the field is written, whatever it held
\* an HSET that removes the field when it already holds the value
hset_toggle(st, key, field, val) ==
    IF field \in DOMAIN st[key] /\ st[key][field] = val
    THEN [st EXCEPT ![key] = HashWithout(st[key], field)]
    ELSE [st EXCEPT ![key] = (field :> val) @@ st[key]]

hset(st, key, field, val) == [st EXCEPT ![key] = (field :> val) @@ st[key]]

\* HDEL key field: the field is absent afterwards, whether or not it was there
\* an HDEL that drops the whole hash
hdel_all(st, key, field) == [st EXCEPT ![key] = EmptyHash]
hdel(st, key, field) == [st EXCEPT ![key] = HashWithout(st[key], field)]

\* DEL key: the bucket and all its fields are gone
del(st, key) == [st EXCEPT ![key] = EmptyHash]

\* PUBLISH channel message
publish(ch, chan_name, obj_str) == [ch EXCEPT ![chan_name] = obj_str]

\* EXPIRE key seconds when it takes a key away: the key is missing already, or
\* the time to live is not positive
expire_deletes(st, key, seconds) == st[key] # EmptyHash /\ seconds <= 0

\* a u64 near either end of its range: n, or u64::MAX - n
u64(n) == [from_max |-> FALSE, n |-> n]
u64_MAX == [from_max |-> TRUE, n |-> 0]

\* `v as i64`: the same 64 bits read as two's complement, so u64::MAX - n is -1 - n
as_i64(v) == IF v.from_max THEN -1 - v.n ELSE v.n

\* an EXPIRE that sets no time to live
expire_persist(st, tt, key, seconds) == [tt EXCEPT ![key] = 0]

\* the time to live EXPIRE key seconds leaves the key with
expire(st, tt, key, seconds) ==
    [tt EXCEPT ![key] = IF st[key] = EmptyHash \/ seconds <= 0 THEN 0 ELSE seconds]

\* a key without fields or members does not exist, and has no time to live
live(st, tt) == [k \in DOMAIN tt |-> IF st[k] = EmptyHash THEN 0 ELSE tt[k]]

\* conn.zadd(key, score, value): the score sent as the member
zadd_swapped(st, key, score, value) ==
    [st EXCEPT ![key] = (fmt_u32(score) :> value) @@ st[key]]

\* ZADD key NX score member: a member that is present keeps its score
zadd_nx(st, key, score, value) == [st EXCEPT ![key] = st[key] @@ (fmt_u32(value) :> score)]

\* ZADD key score member, sent as conn.zadd(key, value, score): the member is
\* the value, its score is replaced
zadd(st, key, score, value) == [st EXCEPT ![key] = (fmt_u32(value) :> score) @@ st[key]]

\* a ZREM that removes nothing
zrem_none(st, key, value) == st

\* ZREM key member
zrem(st, key, value) == [st EXCEPT ![key] = HashWithout(st[key], fmt_u32(value))]

RECURSIVE LexLess(_, _)
\* byte order of two members
LexLess(a, b) ==
    IF Len(b) = 0 THEN FALSE
    ELSE IF Len(a) = 0 THEN TRUE
    ELSE IF a[1] # b[1] THEN DigitVal(a[1]) < DigitVal(b[1])
    ELSE LexLess(Tail(a), Tail(b))

\* ZRANGE key 0 -1 WITHSCORES read as Vec<(u32, u32)>: the (member, score)
\* pairs by ascending score, members of one score in byte order
zrange_withscores(st, key) ==
    LET z == st[key]
        n == Cardinality(DOMAIN z)
        Before(a, b) == z[a] < z[b] \/ (z[a] = z[b] /\ LexLess(a, b))
        o == CHOOSE s \in [1..n -> DOMAIN z] :
                \A i, j \in 1..n : i < j => Before(s[i], s[j])
    IN [i \in 1..n |-> <<parse_u32(o[i]), z[o[i]]>>]

\* the pairs by descending score
sort_by_key_reversed(v) == [i \in 1..Len(v) |-> v[Len(v) + 1 - i]]

RECURSIVE sort_by_key(_)
\* Vec::sort_by_key on the score: a stable sort
sort_by_key(v) ==
    IF Len(v) <= 1 THEN v
    ELSE LET rest == sort_by_key(SubSeq(v, 1, Len(v) - 1))
             x == v[Len(v)]
             k == Cardinality({i \in 1..Len(rest) : rest[i][2] <= x[2]})
         IN SubSeq(rest, 1, k) \o <<x>> \o SubSeq(rest, k + 1, Len(rest))

hset_err == <<"redis failed to insert err=">> \o RedisError
hdel_err(key, field) ==
    <<"redis cannot hdel key=">> \o key \o <<" field=">> \o field \o <<" err=">> \o RedisError
hget_err(key, field) ==
    <<"redis cannot get key=">> \o key \o <<":">> \o field \o <<" err=">> \o RedisError
hgetall_err(key) == <<"redis cannot get key=">> \o key \o <<" err=">> \o RedisError
decode_err == <<"redis failed to decode err=">> \o RedisError
del_err(key) == <<"redis failed to delete key=">> \o key \o <<" err=">> \o RedisError
publish_err == RedisError
zadd_err == <<"redis failed to insert peer into peer queue err=">> \o RedisError
zrem_err == <<"redis failed to remove peer in peer queue err=">> \o RedisError
expire_err(key) ==
    <<"redis failed to set expiration on key=">> \o key \o <<" err=">> \o RedisError
zsetall_get_err == <<"redis failed to get sorted set err=">> \o RedisError
zsetall_set_err == <<"redis failed to set scores err=">> \o RedisError
zgetall_err == <<"redis failed to get peer queue err=">> \o RedisError

from_str(ty, j) ==
    CASE ty = "PeerChangedInfo" -> from_str_PeerChangedInfo(j)
      [] ty = "UserBandwidthPrice" -> from_str_UserBandwidthPrice(j)
      [] ty = "ProxyAccData" -> from_str_ProxyAccData(j)
      [] ty = "UserTask" -> from_str_UserTask(j)
      [] ty = "BonusConfig" -> from_str_BonusConfig(j)

to_string(ty, obj) ==
    CASE ty = "PeerChangedInfo" -> to_string_PeerChangedInfo(obj)
      [] ty = "UserBandwidthPrice" -> to_string_UserBandwidthPrice(obj)
      [] ty = "ProxyAccData" -> to_string_ProxyAccData(obj)
      [] ty = "UserTask" -> to_string_UserTask(obj)
      [] ty = "BonusConfig" -> to_string_BonusConfig(obj)

\* the orders in which a HashMap of these fields may be iterated
Orders(S) ==
    {s \in [1..Cardinality(S) -> S] : \A i, j \in 1..Cardinality(S) : i # j => s[i] # s[j]}

\* an hgetall that leaves out the entries that are not a T
hgetall_lenient(st, key, ty) ==
    LET good == {f \in DOMAIN st[key] : from_str(ty, st[key][f]).ok}
    IN {Ok([i \in 1..Len(o) |-> <<o[i], from_str(ty, st[key][o[i]]).val>>]) :
          o \in Orders(good)}

\* hgetall::<T>: the (field, T) pairs of the bucket in some iteration order,
\* or a decode error when one entry is not a T
hgetall(st, key, ty) ==
    IF \E f \in DOMAIN st[key] : ~from_str(ty, st[key][f]).ok
    THEN {Err(decode_err)}
    ELSE {Ok([i \in 1..Len(o) |-> <<o[i], from_str(ty, st[key][o[i]]).val>>]) :
            o \in Orders(DOMAIN st[key])}

\* hget::<T>: the field read as a String and decoded; a missing field is nil,
\* which is no String
hget(st, key, field, ty) ==
    IF field \notin DOMAIN st[key] THEN Err(hget_err(key, field))
    ELSE IF from_str(ty, st[key][field]).ok THEN Ok(from_str(ty, st[key][field]).val)
    ELSE Err(decode_err)

\* ------------------------------------------- the operations' store calls

\* the error a store method reports when its command fails
MethodErr(cmd, key, field) ==
    CASE cmd = "hset" -> hset_err
      [] cmd = "hget" -> hget_err(key, field)
      [] cmd = "hgetall" -> hgetall_err(key)
      [] cmd = "hdel" -> hdel_err(key, field)
      [] cmd = "zadd" -> zadd_err
      [] cmd = "zrem" -> zrem_err
      [] cmd = "del" -> del_err(key)
      [] cmd = "publish" -> publish_err

\* One store call of an operation: the store method called, its arguments, the
\* text the operation puts before the method's error (map_err), and what the
\* operation does with an error (every call site returns it).
Cmd(cmd, key, field, val, wrap) ==
    [cmd |-> cmd, key |-> key, field |-> field, val |-> val, wrap |-> wrap,
     onerr |-> "return", ty |-> "", then |-> "", via |-> "method",
     err |-> MethodErr(cmd, key, field)]

HgetallCmd(key, ty, then, wrap) ==
    [Cmd("hgetall", key, <<>>, <<>>, wrap) EXCEPT !.ty = ty, !.then = then]

HgetCmd(key, field, ty) == [Cmd("hget", key, field, <<>>, <<>>) EXCEPT !.ty = ty]

\* One command inside a store method that holds its connection: either the one
\* the method connects for, or a later one on the same connection
Inline(cmd, key, field, val, via, then, err) ==
    [cmd |-> cmd, key |-> key, field |-> field, val |-> val, wrap |-> <<>>,
     onerr |-> "return", ty |-> "", then |-> then, via |-> via, err |-> err]

\* the result of the EXPIRE dropped
hset_with_ttl_expire_unchecked(key, field, obj, ttl_seconds) ==
    << Inline("hset", key, field, obj, "method", "", hset_err),
       [Inline("expire", key, <<>>, as_i64(ttl_seconds), "conn", "", expire_err(key))
            EXCEPT !.onerr = "ignore"] >>

\* hset_with_ttl: HSET, then EXPIRE of the whole key on the same connection
hset_with_ttl(key, field, obj, ttl_seconds) ==
    << Inline("hset", key, field, obj, "method", "", hset_err),
       Inline("expire", key, <<>>, as_i64(ttl_seconds), "conn", "", expire_err(key)) >>

\* zsetall: ZRANGE, then ZADD of every member with the one score
zsetall(key, score) ==
    << Inline("zrange", key, <<>>, score, "method", "rescore", zsetall_get_err) >>

zsetall_rescore(key, score, elements) ==
    [i \in 1..Len(elements) |->
        Inline("zadd", key, elements[i][1], score, "conn", "", zsetall_set_err)]

\* zgetall: ZRANGE, then the sort by score
zgetall(key) ==
    << Inline("zrange", key, <<>>, <<>>, "method", "sorted", zgetall_err) >>

Disconnected(info) ==
    [tag |-> "Disconnected",
     info |-> [uuid |-> info.uuid, login_session_id |-> info.login_session_id,
               ip_u32 |-> info.ip_u32]]

remove_all_peers(masternode_id) ==
    << HgetallCmd(get_peers_kf(masternode_id, 0)[1], "PeerChangedInfo", "sweep",
                  <<"redis get peers failed err=">>) >>

\* the loop starting at the second enumerated peer
remove_all_peers_sweep_skip_first(masternode_id, peers) ==
    [i \in 1..(Len(peers) - 1) |->
        Cmd("publish", get_peers_chan(masternode_id), <<>>,
            to_string_PeerChanged(Disconnected(peers[i + 1][2])),
            <<"redis peer status publish failed err=">>)]
    \o << Cmd("del", get_peers_kf(masternode_id, 0)[1], <<>>, <<>>,
              <<"failed to remove peers from redis err=">>) >>

\* the loop going on to the next peer when a publish fails
remove_all_peers_sweep_continue(masternode_id, peers) ==
    [i \in 1..Len(peers) |->
        [Cmd("publish", get_peers_chan(masternode_id), <<>>,
             to_string_PeerChanged(Disconnected(peers[i][2])),
             <<"redis peer status publish failed err=">>) EXCEPT !.onerr = "ignore"]]
    \o << Cmd("del", get_peers_kf(masternode_id, 0)[1], <<>>, <<>>,
              <<"failed to remove peers from redis err=">>) >>

\* the loop over the enumerated peers, then the del of the bucket
remove_all_peers_sweep(masternode_id, peers) ==
    [i \in 1..Len(peers) |->
        Cmd("publish", get_peers_chan(masternode_id), <<>>,
            to_string_PeerChanged(Disconnected(peers[i][2])),
            <<"redis peer status publish failed err=">>)]
    \o << Cmd("del", get_peers_kf(masternode_id, 0)[1], <<>>, <<>>,
              <<"failed to remove peers from redis err=">>) >>

\* the publish moved before the match on the status
publish_peer_broadcast_first(masternode_id, status) ==
    << Cmd("publish", get_peers_chan(masternode_id), <<>>, to_string_PeerChanged(status),
           <<"redis peer status publish failed err=">>),
       IF status.tag = "Connected"
       THEN Cmd("hset", get_peers_kf(masternode_id, status.info.ip_u32)[1],
                get_peers_kf(masternode_id, status.info.ip_u32)[2],
                to_string_PeerChangedInfo(status.info), <<"redis peer add failed err=">>)
       ELSE Cmd("hdel", get_peers_kf(masternode_id, status.info.ip_u32)[1],
                get_peers_kf(masternode_id, status.info.ip_u32)[2],
                <<>>, <<"redis peer removal failed err=">>) >>

\* the Disconnected arm removing the record without a broadcast
publish_peer_disconnect_quiet(masternode_id, status) ==
    IF status.tag = "Connected"
    THEN << Cmd("hset", get_peers_kf(masternode_id, status.info.ip_u32)[1],
                get_peers_kf(masternode_id, status.info.ip_u32)[2],
                to_string_PeerChangedInfo(status.info), <<"redis peer add failed err=">>),
            Cmd("publish", get_peers_chan(masternode_id), <<>>, to_string_PeerChanged(status),
                <<"redis peer status publish failed err=">>) >>
    ELSE << Cmd("hdel", get_peers_kf(masternode_id, status.info.ip_u32)[1],
                get_peers_kf(masternode_id, status.info.ip_u32)[2],
                <<>>, <<"redis peer removal failed err=">>) >>

\* the Disconnected arm writing the record like the Connected arm
publish_peer_disconnect_writes(masternode_id, status) ==
    << Cmd("hset", get_peers_kf(masternode_id, status.info.ip_u32)[1],
           get_peers_kf(masternode_id, status.info.ip_u32)[2],
           to_string_PeerChangedInfo(status.info), <<"redis peer add failed err=">>),
       Cmd("publish", get_peers_chan(masternode_id), <<>>, to_string_PeerChanged(status),
           <<"redis peer status publish failed err=">>) >>

publish_peer(masternode_id, status) ==
    << IF status.tag = "Connected"
       THEN Cmd("hset", get_peers_kf(masternode_id, status.info.ip_u32)[1],
                get_peers_kf(masternode_id, status.info.ip_u32)[2],
                to_string_PeerChangedInfo(status.info), <<"redis peer add failed err=">>)
       ELSE Cmd("hdel", get_peers_kf(masternode_id, status.info.ip_u32)[1],
                get_peers_kf(masternode_id, status.info.ip_u32)[2],
                <<>>, <<"redis peer removal failed err=">>),
       Cmd("publish", get_peers_chan(masternode_id), <<>>, to_string_PeerChanged(status),
           <<"redis peer status publish failed err=">>) >>

get_peers(masternode_id) ==
    << HgetallCmd(get_peers_kf(masternode_id, 0)[1], "PeerChangedInfo", "values",
                  <<"redis get peers failed err=">>) >>

\* the publish's error logged and dropped
publish_peer_price_drop_error(price) ==
    << Cmd("hset", get_price_kf(price.user_addr)[1], get_price_kf(price.user_addr)[2],
           to_string_UserBandwidthPrice(price), <<"redis set peer price failed err=">>),
       [Cmd("publish", get_price_chan, <<>>, to_string_UserBandwidthPrice(price),
            <<"redis peer status publish failed err=">>) EXCEPT !.onerr = "ignore"] >>

publish_peer_price(price) ==
    << Cmd("hset", get_price_kf(price.user_addr)[1], get_price_kf(price.user_addr)[2],
           to_string_UserBandwidthPrice(price), <<"redis set peer price failed err=">>),
       Cmd("publish", get_price_chan, <<>>, to_string_UserBandwidthPrice(price),
           <<"redis peer status publish failed err=">>) >>

publish_first_time_provider(provider) ==
    << Cmd("hset", get_first_time_provider_kf(provider.user_addr)[1],
           get_first_time_provider_kf(provider.user_addr)[2],
           to_string_UserTask(provider), <<"redis set first time provider failed err=">>),
       Cmd("publish", get_first_time_provider_chan, <<>>, to_string_UserTask(provider),
           <<"redis first time provider publish failed err=">>) >>

publish_withdrawal_reward(provider) ==
    << Cmd("hset", get_withdrawal_reward_kf(provider.user_addr)[1],
           get_withdrawal_reward_kf(provider.user_addr)[2],
           to_string_UserTask(provider), <<"redis set withdrawal reward failed err=">>),
       Cmd("publish", get_withdrawal_reward_chan, <<>>, to_string_UserTask(provider),
           <<"redis first time provider publish failed err=">>) >>

\* the hset's error dropped: the broadcast is made all the same
publish_completed_8_hours_ot_unchecked(provider) ==
    << [Cmd("hset", get_completed_8_hours_ot_kf(provider.user_addr)[1],
            get_completed_8_hours_ot_kf(provider.user_addr)[2],
            to_string_UserTask(provider), <<"redis set completed 8 hours ot failed err=">>)
        EXCEPT !.onerr = "ignore"],
       Cmd("publish", get_completed_8_hours_ot_chan, <<>>, to_string_UserTask(provider),
           <<"redis completed 8 hours ot publish failed err=">>) >>

publish_completed_8_hours_ot(provider) ==
    << Cmd("hset", get_completed_8_hours_ot_kf(provider.user_addr)[1],
           get_completed_8_hours_ot_kf(provider.user_addr)[2],
           to_string_UserTask(provider), <<"redis set completed 8 hours ot failed err=">>),
       Cmd("publish", get_completed_8_hours_ot_chan, <<>>, to_string_UserTask(provider),
           <<"redis completed 8 hours ot publish failed err=">>) >>

\* the record written like the other milestones' before the broadcast
publish_invite_friend_one_time_recorded(provider) ==
    << Cmd("hset", get_invite_friend_one_time_kf(provider.user_addr)[1],
           get_invite_friend_one_time_kf(provider.user_addr)[2],
           to_string_UserTask(provider), <<"redis set invite friend one time failed err=">>),
       Cmd("publish", get_invite_friend_one_time_chan, <<>>, to_string_UserTask(provider),
           <<"redis invite friend one time publish failed err=">>) >>

publish_invite_friend_one_time(provider) ==
    << Cmd("publish", get_invite_friend_one_time_chan, <<>>, to_string_UserTask(provider),
           <<"redis invite friend one time publish failed err=">>) >>

\* the publish's own result is the method's result: no text is put before it
\* the hset's result dropped, the publish's own result returned
publish_completed_time_per_day_unchecked(provider) ==
    << [Cmd("hset", get_completed_time_per_day_kf(provider.user_addr)[1],
            get_completed_time_per_day_kf(provider.user_addr)[2],
            to_string_UserTask(provider), <<>>) EXCEPT !.onerr = "ignore"],
       Cmd("publish", get_completed_time_per_day_chan, <<>>, to_string_UserTask(provider),
           <<>>) >>

publish_completed_time_per_day(provider) ==
    << Cmd("hset", get_completed_time_per_day_kf(provider.user_addr)[1],
           get_completed_time_per_day_kf(provider.user_addr)[2],
           to_string_UserTask(provider), <<"redis set completed time per day failed err=">>),
       Cmd("publish", get_completed_time_per_day_chan, <<>>, to_string_UserTask(provider),
           <<>>) >>

get_peers_price ==
    << HgetallCmd(get_price_kf(<<>>)[1], "UserBandwidthPrice", "values",
                  <<"redis get peers price failed err=">>) >>

get_proxy_accs ==
    << HgetallCmd(get_proxy_acc_kf(<<>>)[1], "ProxyAccData", "values",
                  <<"redis get proxy accs failed err=">>) >>

\* the removal announced to the subscribers of the proxy-account channel
remove_all_proxy_accs_announced ==
    << Cmd("del", get_proxy_acc_kf(<<>>)[1], <<>>, <<>>,
           <<"failed to remove peers from redis err=">>),
       Cmd("publish", get_proxy_acc_chan, <<>>,
           to_string_ProxyAccChanged([tag |-> "RefreshAll", arg |-> <<>>]),
           <<"redis proxy acc publish failed err=">>) >>

remove_all_proxy_accs ==
    << Cmd("del", get_proxy_acc_kf(<<>>)[1], <<>>, <<>>,
           <<"failed to remove peers from redis err=">>) >>

\* the del's error dropped
remove_all_withdrawal_reward_drop_error ==
    << [Cmd("del", get_withdrawal_reward_kf(<<>>)[1], <<>>, <<>>,
            <<"failed to remove withdrawal reward from redis err=">>)
        EXCEPT !.onerr = "ignore"] >>

remove_all_withdrawal_reward ==
    << Cmd("del", get_withdrawal_reward_kf(<<>>)[1], <<>>, <<>>,
           <<"failed to remove withdrawal reward from redis err=">>) >>

\* RefreshAll kept in the bucket, under the empty id, before the publish
publish_proxy_acc_refresh_writes(proxy_acc_changed) ==
    (CASE proxy_acc_changed.tag \in {"Created", "Updated"} ->
            << Cmd("hset", get_proxy_acc_kf(proxy_acc_changed.arg.id)[1],
                   get_proxy_acc_kf(proxy_acc_changed.arg.id)[2],
                   to_string_ProxyAccData(proxy_acc_changed.arg), <<>>) >>
       [] proxy_acc_changed.tag = "Deleted" ->
            << Cmd("hdel", get_proxy_acc_kf(proxy_acc_changed.arg)[1],
                   get_proxy_acc_kf(proxy_acc_changed.arg)[2], <<>>, <<>>) >>
       [] proxy_acc_changed.tag = "RefreshAll" ->
            << Cmd("hset", get_proxy_acc_kf(<<>>)[1], get_proxy_acc_kf(<<>>)[2],
                   to_string_ProxyAccChanged(proxy_acc_changed), <<>>) >>)
    \o << Cmd("publish", get_proxy_acc_chan, <<>>,
              to_string_ProxyAccChanged(proxy_acc_changed),
              <<"redis proxy acc publish failed err=">>) >>

\* the Deleted arm left empty like the RefreshAll arm
publish_proxy_acc_delete_noop(proxy_acc_changed) ==
    (CASE proxy_acc_changed.tag \in {"Created", "Updated"} ->
            << Cmd("hset", get_proxy_acc_kf(proxy_acc_changed.arg.id)[1],
                   get_proxy_acc_kf(proxy_acc_changed.arg.id)[2],
                   to_string_ProxyAccData(proxy_acc_changed.arg), <<>>) >>
       [] proxy_acc_changed.tag \in {"Deleted", "RefreshAll"} -> << >>)
    \o << Cmd("publish", get_proxy_acc_chan, <<>>,
              to_string_ProxyAccChanged(proxy_acc_changed),
              <<"redis proxy acc publish failed err=">>) >>

\* the match on the variant (RefreshAll touches no record), then the publish
publish_proxy_acc(proxy_acc_changed) ==
    (CASE proxy_acc_changed.tag \in {"Created", "Updated"} ->
            << Cmd("hset", get_proxy_acc_kf(proxy_acc_changed.arg.id)[1],
                   get_proxy_acc_kf(proxy_acc_changed.arg.id)[2],
                   to_string_ProxyAccData(proxy_acc_changed.arg), <<>>) >>
       [] proxy_acc_changed.tag = "Deleted" ->
            << Cmd("hdel", get_proxy_acc_kf(proxy_acc_changed.arg)[1],
                   get_proxy_acc_kf(proxy_acc_changed.arg)[2], <<>>, <<>>) >>
       [] proxy_acc_changed.tag = "RefreshAll" -> << >>)
    \o << Cmd("publish", get_proxy_acc_chan, <<>>,
              to_string_ProxyAccChanged(proxy_acc_changed),
              <<"redis proxy acc publish failed err=">>) >>

\* ------------------------------------------------------------ the calls

\* the first peer address under either session, the others under the first
PeerInfos ==
    {i \in [uuid : UUIDs, login_session_id : Sessions, ip_u32 : IPs] :
        i.ip_u32 = 1 \/ i.login_session_id = <<"s1">>}
PeerStatuses == [tag : {"Connected", "Disconnected"}, info : PeerInfos]

Call(op, id, arg) == [op |-> op, id |-> id, arg |-> arg]
NoCall == Call("none", <<>>, <<>>)

Prices == [user_addr : UserAddrs, rate_per_kb : Rates, rate_per_second : {1}]
UserTasks == [user_addr : UserAddrs]
\* an account that differs from the others in its id and password
ProxyAcc(id, password) ==
    [id |-> id, username |-> <<"user">>, password |-> password,
     ip_rotation_period |-> 60, whitelist_ip_list |-> << <<"10.0.0.1">> >>]

\* the first account under either password, the others under the first
ProxyAccs ==
    {ProxyAcc(id_pw[1], id_pw[2]) : id_pw \in {a \in AccIds \X Passwords :
                                        a[1] = <<"x1">> \/ a[2] = <<"pw1">>}}
ProxyAccChanges ==
    [tag : {"Created", "Updated"}, arg : ProxyAccs]
    \cup [tag : {"Deleted"}, arg : AccIds]
    \cup [tag : {"RefreshAll"}, arg : {<<>>}]

Script(call) ==
    CASE call.op = "publish_peer" -> publish_peer(call.id, call.arg)
      [] call.op = "remove_all_peers" -> remove_all_peers(call.id)
      [] call.op = "get_peers" -> get_peers(call.id)
      [] call.op = "publish_peer_price" -> publish_peer_price(call.arg)
      [] call.op = "publish_first_time_provider" -> publish_first_time_provider(call.arg)
      [] call.op = "publish_withdrawal_reward" -> publish_withdrawal_reward(call.arg)
      [] call.op = "publish_completed_8_hours_ot" -> publish_completed_8_hours_ot(call.arg)
      [] call.op = "publish_invite_friend_one_time" ->
            publish_invite_friend_one_time(call.arg)
      [] call.op = "publish_completed_time_per_day" ->
            publish_completed_time_per_day(call.arg)
      [] call.op = "get_peers_price" -> get_peers_price
      [] call.op = "get_proxy_accs" -> get_proxy_accs
      [] call.op = "remove_all_proxy_accs" -> remove_all_proxy_accs
      [] call.op = "remove_all_withdrawal_reward" -> remove_all_withdrawal_reward
      [] call.op = "publish_proxy_acc" -> publish_proxy_acc(call.arg)
      [] call.op = "hset" -> << Cmd("hset", call.id, call.arg.field, to_string(call.arg.ty, call.arg.obj), <<>>) >>
      [] call.op = "hset_with_ttl" ->
            hset_with_ttl(call.id, call.arg.field, to_string(call.arg.ty, call.arg.obj),
                          call.arg.ttl_seconds)
      [] call.op = "hget" -> << HgetCmd(call.id, call.arg.field, call.arg.ty) >>
      [] call.op = "hgetall" -> << HgetallCmd(call.id, call.arg.ty, "entries", <<>>) >>
      [] call.op = "hdel" -> << Cmd("hdel", call.id, call.arg.field, <<>>, <<>>) >>
      [] call.op = "zadd" -> << Cmd("zadd", call.id, call.arg.value, call.arg.score, <<>>) >>
      [] call.op = "zrem" -> << Cmd("zrem", call.id, call.arg.value, <<>>, <<>>) >>
      [] call.op = "zsetall" -> zsetall(call.id, call.arg.score)
      [] call.op = "zgetall" -> zgetall(call.id)
      [] call.op = "del" -> << Cmd("del", call.id, <<>>, <<>>, <<>>) >>
      [] call.op = "publish" -> << Cmd("publish", call.id, <<>>, call.arg.obj_str, <<>>) >>

\* what an operation does with the entries its hgetall or zrange returned
Continue(call, then, entries) ==
    CASE then = "sweep" -> remove_all_peers_sweep(call.id, entries)
      [] then = "rescore" -> zsetall_rescore(call.id, call.arg.score, entries)
      [] then \in {"values", "entries", "sorted"} -> <<>>

Values(entries) == [i \in 1..Len(entries) |-> entries[i][2]]

\* what the operation returns when the read was its last store call
Yield(then, entries) ==
    CASE then = "values" -> Values(entries)
      [] then = "entries" -> entries
      [] then = "sorted" -> sort_by_key(entries)
      [] then \in {"sweep", "rescore"} -> Unit

\* ------------------------------------------------------- the subscriber

NoMsg == <<>>

\* a subscriber of a node's peer channel keeps the peers it was told are connected
apply_peer_event(v, msg) ==
    LET ev == from_str_PeerChanged(msg).val
    IN IF ev.tag = "Connected"
       THEN (fmt_u32(ev.info.ip_u32) :> ev.info) @@ v
       ELSE HashWithout(v, fmt_u32(ev.info.ip_u32))

\* a subscriber of the price channel keeps the price last announced per user
apply_price_event(v, msg) ==
    LET price == from_str_UserBandwidthPrice(msg).val
    IN (price.user_addr :> price) @@ v

\* a subscriber of a milestone channel keeps the users announced
apply_task_event(v, msg) ==
    LET provider == from_str_UserTask(msg).val
    IN (provider.user_addr :> provider) @@ v

\* a subscriber of the proxy-account channel keeps the accounts created or
\* updated and not deleted since
apply_proxy_acc_event(v, msg) ==
    LET change == from_str_ProxyAccChanged(msg).val
    IN CASE change.tag \in {"Created", "Updated"} -> (change.arg.id :> change.arg) @@ v
         [] change.tag = "Deleted" -> HashWithout(v, change.arg)
         [] change.tag = "RefreshAll" -> v

deliver(vw, chan_name, msg) ==
    [vw EXCEPT ![chan_name] =
        CASE chan_name \in PeerChans -> apply_peer_event(@, msg)
          [] chan_name = get_price_chan -> apply_price_event(@, msg)
          [] chan_name = get_proxy_acc_chan -> apply_proxy_acc_event(@, msg)
          [] chan_name \in TaskChans -> apply_task_event(@, msg)]

\* --------------------------------------------------------- the callers

Idle == [id |-> 0, call |-> NoCall, todo |-> <<>>, done |-> <<>>, fails |-> <<>>]

\* a completed call: its number, its result, the store calls it completed and
\* the ones that failed
Returned(id, call, res, done, fails) ==
    [id |-> id, call |-> call, res |-> res, done |-> done, fails |-> fails]

NoReturn == Returned(0, NoCall, Err(NoErr), <<>>, <<>>)

BucketOfChan(c) ==
    CASE c \in PeerChans -> get_peers_kf(CHOOSE n \in Nodes : get_peers_chan(n) = c, 0)[1]
      [] c = get_price_chan -> get_price_kf(<<>>)[1]
      [] c = get_proxy_acc_chan -> get_proxy_acc_kf(<<>>)[1]
      [] c = get_first_time_provider_chan -> get_first_time_provider_kf(<<>>)[1]
      [] c = get_withdrawal_reward_chan -> get_withdrawal_reward_kf(<<>>)[1]
      [] c = get_completed_8_hours_ot_chan -> get_completed_8_hours_ot_kf(<<>>)[1]
      [] c = get_invite_friend_one_time_chan -> get_invite_friend_one_time_kf(<<>>)[1]
      [] c = get_completed_time_per_day_chan -> get_completed_time_per_day_kf(<<>>)[1]

TypeOfChan(c) ==
    CASE c \in PeerChans -> "PeerChangedInfo"
      [] c = get_price_chan -> "UserBandwidthPrice"
      [] c = get_proxy_acc_chan -> "ProxyAccData"
      [] c \in TaskChans -> "UserTask"

\* the records of a bucket, decoded
Records(h, ty) ==
    IF h = EmptyHash THEN EmptyHash ELSE [f \in DOMAIN h |-> from_str(ty, h[f]).val]

\* a subscriber that connects enumerates the bucket of its channel
Enumerated(st) == [c \in Channels |-> Records(st[BucketOfChan(c)], TypeOfChan(c))]

EmptyStore == [k \in Buckets |-> EmptyHash]

\* The store outlives the service: at construction a bucket holds what earlier
\* publish calls left in it.
HashesOf(Keys, Vals, field_of(_), encode(_)) ==
    {h \in UNION {[K -> {encode(v) : v \in Vals}] : K \in SUBSET Keys \ {{}}} :
        \A f \in DOMAIN h : \E v \in Vals : h[f] = encode(v) /\ field_of(v) = f}
    \cup {EmptyHash}

PeerField(info) == get_peers_kf(<<>>, info.ip_u32)[2]
PriceField(price) == get_price_kf(price.user_addr)[2]
ProxyAccField(pad) == get_proxy_acc_kf(pad.id)[2]

PeerStores(masternode_id) ==
    {[EmptyStore EXCEPT ![get_peers_kf(masternode_id, 0)[1]] = h] :
        h \in HashesOf({PeerField(i) : i \in PeerInfos}, PeerInfos,
                       PeerField, to_string_PeerChangedInfo)}

PriceStores ==
    {[EmptyStore EXCEPT ![get_price_kf(<<>>)[1]] = h] :
        h \in HashesOf({PriceField(x) : x \in Prices}, Prices,
                       PriceField, to_string_UserBandwidthPrice)}

ProxyStores ==
    {[EmptyStore EXCEPT ![get_proxy_acc_kf(<<>>)[1]] = h] :
        h \in HashesOf({ProxyAccField(x) : x \in ProxyAccs}, ProxyAccs,
                       ProxyAccField, to_string_ProxyAccData)}

\* ------------------------------------------------- the stream payloads

\* Option<T>
None == <<>>
Some(x) == <<x>>

\* struct VPNPayload {}, struct HealthCheck {} and their wire messages
VPNPayload == <<>>
HealthCheck == <<>>
ProtoVpnPayload == <<>>
ProtoHealthCheck == <<>>

\* impl Into<ProtoProxyPayload> for ProxyPayload, with the fields of the
\* origin taken one for the other
ProxyPayload_into_swapped(self) ==
    [origin_topic |-> self.origin.origin_topic, stream_id |-> self.origin.duration,
     duration |-> self.origin.stream_id, payload |-> self.payload]

\* impl Into<ProtoProxyPayload> for ProxyPayload
ProxyPayload_into(self) ==
    [origin_topic |-> self.origin.origin_topic, stream_id |-> self.origin.stream_id,
     duration |-> self.origin.duration, payload |-> self.payload]

\* impl Into<ProxyPayload> for ProtoProxyPayload
ProtoProxyPayload_into(self) ==
    [origin |-> [origin_topic |-> self.origin_topic, stream_id |-> self.stream_id,
                 duration |-> self.duration],
     payload |-> self.payload]

\* impl Into<ProtoStreamPayload> for StreamPayload
StreamPayload_into(self) ==
    CASE self.tag = "ProxyPayload" ->
            [payload |-> Some([tag |-> "ProxyPayload",
                               val |-> [origin_topic |-> self.val.origin.origin_topic,
                                        stream_id |-> self.val.origin.stream_id,
                                        duration |-> self.val.origin.duration,
                                        payload |-> self.val.payload]])]
      [] self.tag = "VPNPayload" ->
            [payload |-> Some([tag |-> "VpnPayload", val |-> ProtoVpnPayload])]
      [] self.tag = "HealthCheck" ->
            [payload |-> Some([tag |-> "HealthCheck", val |-> ProtoHealthCheck])]

\* a conversion or a decoding that panicked, and one that returned
Panic == [ok |-> FALSE]
Done(v) == [ok |-> TRUE, val |-> v]

\* impl Into<StreamPayload> for ProtoStreamPayload: self.payload.unwrap()
\* panics on None
ProtoStreamPayload_into(self) ==
    IF self.payload = None THEN Panic
    ELSE LET p == self.payload[1].val IN
         CASE self.payload[1].tag = "ProxyPayload" ->
                 Done([tag |-> "ProxyPayload",
                       val |-> [origin |-> [origin_topic |-> p.origin_topic,
                                            stream_id |-> p.stream_id,
                                            duration |-> p.duration],
                                payload |-> p.payload]])
           [] self.payload[1].tag = "VpnPayload" ->
                 Done([tag |-> "VPNPayload", val |-> VPNPayload])
           [] self.payload[1].tag = "HealthCheck" ->
                 Done([tag |-> "HealthCheck", val |-> HealthCheck])

RECURSIVE varint(_)
\* a base-128 varint, least significant group first
varint(n) == IF n < 128 THEN <<n>> ELSE <<128 + (n % 128)>> \o varint(n \div 128)

RECURSIVE read_varint(_)
\* the varint at the head of the bytes and the bytes after it
read_varint(bz) ==
    IF bz = <<>> THEN Panic
    ELSE IF bz[1] < 128 THEN Done([n |-> bz[1], rest |-> Tail(bz)])
    ELSE LET more == read_varint(Tail(bz)) IN
         IF more.ok
         THEN Done([n |-> (bz[1] - 128) + 128 * more.val.n, rest |-> more.val.rest])
         ELSE Panic

\* the key bytes of the four fields of ProtoProxyPayload: origin_topic and
\* payload are length-delimited, stream_id and duration are varints
TagOriginTopic == 10
TagStreamId == 16
TagPayload == 26
TagDuration == 32

Delimited(tag, bytes) == IF bytes = <<>> THEN <<>> ELSE <<tag>> \o varint(Len(bytes)) \o bytes
Scalar(tag, n) == IF n = 0 THEN <<>> ELSE <<tag>> \o varint(n)

\* prost::Message::encode_to_vec of a ProtoProxyPayload: the fields in the
\* order of their numbers, a field with its default value left out
encode_to_vec(proto) ==
    Delimited(TagOriginTopic, proto.origin_topic) \o Scalar(TagStreamId, proto.stream_id)
    \o Delimited(TagPayload, proto.payload) \o Scalar(TagDuration, proto.duration)

DefaultProtoProxyPayload ==
    [origin_topic |-> <<>>, stream_id |-> 0, duration |-> 0, payload |-> <<>>]

RECURSIVE merge(_, _)
\* the fields read from the bytes put into the message, one after the other
merge(proto, bz) ==
    IF bz = <<>> THEN Done(proto)
    ELSE LET v == read_varint(Tail(bz)) IN
         IF ~v.ok THEN Panic
         ELSE IF bz[1] \in {TagStreamId, TagDuration}
         THEN merge(IF bz[1] = TagStreamId THEN [proto EXCEPT !.stream_id = v.val.n]
                    ELSE [proto EXCEPT !.duration = v.val.n], v.val.rest)
         ELSE IF bz[1] \in {TagOriginTopic, TagPayload} /\ v.val.n <= Len(v.val.rest)
         THEN LET bytes == SubSeq(v.val.rest, 1, v.val.n)
                  rest == SubSeq(v.val.rest, v.val.n + 1, Len(v.val.rest)) IN
              merge(IF bz[1] = TagOriginTopic THEN [proto EXCEPT !.origin_topic = bytes]
                    ELSE [proto EXCEPT !.payload = bytes], rest)
         ELSE Panic

\* ProtoProxyPayload::decode
decode(bz) == merge(DefaultProtoProxyPayload, bz)

\* ProxyPayload::to_vec
to_vec(self) == encode_to_vec(ProxyPayload_into(self))

\* ProxyPayload::from_bytes: decode(bz).expect(..) panics on bytes that are no message
from_bytes(bz) ==
    IF decode(bz).ok THEN Done(ProtoProxyPayload_into(decode(bz).val)) ELSE Panic

NoWire == [at |-> "none", sent |-> <<>>, val |-> <<>>]

\* the variables of the store service at construction
InitService(Stores, logged) ==
    /\ store \in Stores
    /\ ttl = [k \in Buckets |-> 0]
    /\ chan = [c \in Channels |-> NoMsg]
    /\ view = Enumerated(store)
    /\ pc = [p \in Procs |-> Idle]
    /\ ncalls = 0
    /\ overlap = FALSE
    /\ failed = FALSE
    /\ last = NoReturn
    /\ log = [on |-> logged, calls |-> <<>>]

InitOf(Stores, logged) == InitService(Stores, logged) /\ wire = NoWire

InitWith(Stores) == InitOf(Stores, FALSE)
InitLogged(Stores) == InitOf(Stores, TRUE)

Init == InitWith({EmptyStore})

Running(p) == pc[p].todo # <<>>

\* What caller p may do next: the next store call of its call in progress, or,
\* when it has none, the first store call of a new call.
Moves(p, Calls, Max) ==
    IF Running(p) THEN {[id |-> pc[p].id, call |-> pc[p].call, todo |-> pc[p].todo,
                          done |-> pc[p].done, fails |-> pc[p].fails, fresh |-> FALSE]}
    ELSE IF ncalls < Max
         THEN {[id |-> ncalls + 1, call |-> c, todo |-> Script(c), done |-> <<>>,
                fails |-> <<>>, fresh |-> TRUE] : c \in Calls}
         ELSE {}

Started(p, m) ==
    /\ ncalls' = IF m.fresh THEN ncalls + 1 ELSE ncalls
    /\ overlap' = (overlap \/ (m.fresh /\ \E q \in Procs \ {p} : Running(q)))

\* the call goes on with `rest`, or returns `res` when nothing is left to do
Proceed(p, m, rest, res, done, fails) ==
    /\ pc' = [pc EXCEPT ![p] = IF rest = <<>> THEN Idle
                               ELSE [id |-> m.id, call |-> m.call, todo |-> rest,
                                     done |-> done, fails |-> fails]]
    /\ last' = IF rest = <<>> THEN Returned(m.id, m.call, res, done, fails) ELSE last
    /\ log' = IF rest = <<>> /\ log.on
              THEN [log EXCEPT !.calls = Append(@, Returned(m.id, m.call, res, done, fails))]
              ELSE log
    /\ wire' = wire
    /\ Started(p, m)

\* the store call succeeded: go on with `rest`, or return Ok(val)
StepOk(p, m, rest, val) ==
    /\ Proceed(p, m, rest, Ok(val), Append(m.done, Head(m.todo)), m.fails)
    /\ failed' = failed

\* the store call failed with `inner`: the operation returns the error under
\* its own text
StepErr(p, m, inner) ==
    LET c == Head(m.todo) IN
    /\ IF c.onerr = "return"
       THEN Proceed(p, m, <<>>, Err(c.wrap \o inner), m.done, Append(m.fails, c))
       ELSE Proceed(p, m, Tail(m.todo), Ok(Unit), m.done, Append(m.fails, c))
    /\ failed' = TRUE

Fault(out, cmd_err) == IF out = "conn" THEN ConnErr ELSE cmd_err

\* caller p's next store call is `cmd` and ends as `out`
Calls_(p, Calls, Max, cmd) ==
    {mo \in Moves(p, Calls, Max) \X Outcomes :
        Head(mo[1].todo).cmd = cmd /\ mo[2] \in OutcomesOf(Head(mo[1].todo))}

Hset(p, Calls, Max) ==
    \E mo \in Calls_(p, Calls, Max, "hset") :
        LET m == mo[1]  c == Head(m.todo) IN
        /\ IF mo[2] = "ok"
           THEN /\ store' = hset(store, c.key, c.field, c.val)
                /\ StepOk(p, m, Tail(m.todo), Unit)
           ELSE /\ store' = store
                /\ StepErr(p, m, Fault(mo[2], c.err))
        /\ UNCHANGED <<ttl, chan, view>>

Expire(p, Calls, Max) ==
    \E mo \in Calls_(p, Calls, Max, "expire") :
        LET m == mo[1]  c == Head(m.todo) IN
        /\ IF mo[2] = "ok"
           THEN /\ store' = IF expire_deletes(store, c.key, c.val) THEN del(store, c.key)
                            ELSE store
                /\ ttl' = expire(store, ttl, c.key, c.val)
                /\ StepOk(p, m, Tail(m.todo), Unit)
           ELSE /\ store' = store
                /\ ttl' = ttl
                /\ StepErr(p, m, Fault(mo[2], c.err))
        /\ UNCHANGED <<chan, view>>

Hget(p, Calls, Max) ==
    \E mo \in Calls_(p, Calls, Max, "hget") :
        LET m == mo[1]  c == Head(m.todo)  r == hget(store, c.key, c.field, c.ty) IN
        /\ IF mo[2] = "ok"
           THEN /\ Proceed(p, m, <<>>, r, Append(m.done, c), m.fails)
                /\ failed' = failed
           ELSE StepErr(p, m, Fault(mo[2], c.err))
        /\ UNCHANGED <<store, ttl, chan, view>>

Hdel(p, Calls, Max) ==
    \E mo \in Calls_(p, Calls, Max, "hdel") :
        LET m == mo[1]  c == Head(m.todo) IN
        /\ IF mo[2] = "ok"
           THEN /\ store' = hdel(store, c.key, c.field)
                /\ StepOk(p, m, Tail(m.todo), Unit)
           ELSE /\ store' = store
                /\ StepErr(p, m, Fault(mo[2], c.err))
        /\ ttl' = live(store', ttl)
        /\ UNCHANGED <<chan, view>>

Zadd(p, Calls, Max) ==
    \E mo \in Calls_(p, Calls, Max, "zadd") :
        LET m == mo[1]  c == Head(m.todo) IN
        /\ IF mo[2] = "ok"
           THEN /\ store' = zadd(store, c.key, c.val, c.field)
                /\ StepOk(p, m, Tail(m.todo), Unit)
           ELSE /\ store' = store
                /\ StepErr(p, m, Fault(mo[2], c.err))
        /\ UNCHANGED <<ttl, chan, view>>

Zrem(p, Calls, Max) ==
    \E mo \in Calls_(p, Calls, Max, "zrem") :
        LET m == mo[1]  c == Head(m.todo) IN
        /\ IF mo[2] = "ok"
           THEN /\ store' = zrem(store, c.key, c.field)
                /\ StepOk(p, m, Tail(m.todo), Unit)
           ELSE /\ store' = store
                /\ StepErr(p, m, Fault(mo[2], c.err))
        /\ ttl' = live(store', ttl)
        /\ UNCHANGED <<chan, view>>

Zrange(p, Calls, Max) ==
    \E mo \in Calls_(p, Calls, Max, "zrange") :
        LET m == mo[1]  c == Head(m.todo)  elements == zrange_withscores(store, c.key) IN
        /\ IF mo[2] = "ok"
           THEN StepOk(p, m, Continue(m.call, c.then, elements), Yield(c.then, elements))
           ELSE StepErr(p, m, Fault(mo[2], c.err))
        /\ UNCHANGED <<store, ttl, chan, view>>

Del(p, Calls, Max) ==
    \E mo \in Calls_(p, Calls, Max, "del") :
        LET m == mo[1]  c == Head(m.todo) IN
        /\ IF mo[2] = "ok"
           THEN /\ store' = del(store, c.key)
                /\ StepOk(p, m, Tail(m.todo), Unit)
           ELSE /\ store' = store
                /\ StepErr(p, m, Fault(mo[2], c.err))
        /\ ttl' = live(store', ttl)
        /\ UNCHANGED <<chan, view>>

Publish(p, Calls, Max) ==
    \E mo \in Calls_(p, Calls, Max, "publish") :
        LET m == mo[1]  c == Head(m.todo) IN
        /\ IF mo[2] = "ok"
           THEN /\ chan' = publish(chan, c.key, c.val)
                /\ view' = deliver(view, c.key, c.val)
                /\ StepOk(p, m, Tail(m.todo), Unit)
           ELSE /\ chan' = chan
                /\ view' = view
                /\ StepErr(p, m, Fault(mo[2], c.err))
        /\ UNCHANGED <<store, ttl>>

Hgetall(p, Calls, Max) ==
    \E mo \in Calls_(p, Calls, Max, "hgetall") :
        LET m == mo[1]  c == Head(m.todo) IN
        /\ IF mo[2] = "ok"
           THEN \E r \in hgetall(store, c.key, c.ty) :
                  IF r.ok
                  THEN StepOk(p, m, Continue(m.call, c.then, r.val), Yield(c.then, r.val))
                  ELSE StepErr(p, m, r.err)
           ELSE StepErr(p, m, Fault(mo[2], c.err))
        /\ UNCHANGED <<store, ttl, chan, view>>

\* a second passes: every key that expires loses a second, and is gone at 0
\* the mark one elapsed second leaves among the completed calls
Elapsed == Returned(0, Call("tick", <<>>, <<>>), Ok(Unit), <<>>, <<>>)

Tick ==
    /\ \E k \in Buckets : ttl[k] > 0
    /\ ttl' = [k \in Buckets |-> IF ttl[k] > 0 THEN ttl[k] - 1 ELSE 0]
    /\ store' = [k \in Buckets |-> IF ttl[k] = 1 THEN EmptyHash ELSE store[k]]
    /\ log' = IF log.on THEN [log EXCEPT !.calls = Append(@, Elapsed)] ELSE log
    /\ UNCHANGED <<chan, view, pc, ncalls, overlap, failed, last, wire>>

\* ------------------------------------------------- the specifications

PeerCalls(NodeSet) ==
    {Call("publish_peer", n, s) : n \in NodeSet, s \in PeerStatuses}
    \cup {Call("remove_all_peers", n, <<>>) : n \in NodeSet}
    \cup {Call("get_peers", n, <<>>) : n \in NodeSet}

PriceCalls ==
    {Call("publish_peer_price", <<>>, price) : price \in Prices}
    \cup {Call("get_peers_price", <<>>, <<>>)}

ProxyCalls ==
    {Call("publish_proxy_acc", <<>>, change) : change \in ProxyAccChanges}
    \cup {Call("get_proxy_accs", <<>>, <<>>)}

\* every operation, each with one argument per variant
Node1 == <<"n1">>
Info1 == [uuid |-> <<"u1">>, login_session_id |-> <<"s1">>, ip_u32 |-> 1]
Task1 == [user_addr |-> <<"a1">>]
AllCalls ==
    {Call("publish_peer", Node1, [tag |-> t, info |-> Info1]) : t \in {"Connected", "Disconnected"}}
    \cup {Call("remove_all_peers", Node1, <<>>), Call("get_peers", Node1, <<>>)}
    \cup {Call("publish_peer_price", <<>>,
               [user_addr |-> <<"a1">>, rate_per_kb |-> 1, rate_per_second |-> 1]),
          Call("get_peers_price", <<>>, <<>>)}
    \cup {Call(op, <<>>, Task1) :
            op \in {"publish_first_time_provider", "publish_withdrawal_reward",
                    "publish_completed_8_hours_ot", "publish_invite_friend_one_time",
                    "publish_completed_time_per_day"}}
    \cup {Call("publish_proxy_acc", <<>>, change) :
            change \in {[tag |-> "Created", arg |-> ProxyAcc(<<"x1">>, <<"pw1">>)],
                        [tag |-> "Updated", arg |-> ProxyAcc(<<"x1">>, <<"pw2">>)],
                        [tag |-> "Deleted", arg |-> <<"x1">>],
                        [tag |-> "RefreshAll", arg |-> <<>>]}}
    \cup {Call("get_proxy_accs", <<>>, <<>>), Call("remove_all_proxy_accs", <<>>, <<>>),
          Call("remove_all_withdrawal_reward", <<>>, <<>>)}

\* the store methods called on their own: a hash of one user's record that
\* may expire, the peer queue of a node, a message on the price channel
Geo1 == get_user_addr_geo_kf(<<"a1">>)
Queue1 == get_peer_queue_k(Node1)
Seconds == {u64(0), u64(2), u64_MAX}
StoreCalls ==
    {Call("hset", Geo1[1], [field |-> Geo1[2], ty |-> "UserTask", obj |-> Task1]),
     Call("hget", Geo1[1], [field |-> Geo1[2], ty |-> "UserTask"]),
     Call("hgetall", Geo1[1], [ty |-> "UserTask"]),
     Call("hdel", Geo1[1], [field |-> Geo1[2]]),
     Call("del", Geo1[1], <<>>),
     Call("zrem", Queue1, [value |-> 1]),
     Call("zsetall", Queue1, [score |-> 3]),
     Call("zgetall", Queue1, <<>>),
     Call("publish", get_price_chan,
          [obj_str |-> to_string_UserBandwidthPrice(
                          [user_addr |-> <<"a1">>, rate_per_kb |-> 2, rate_per_second |-> 1])])}
    \cup {Call("hset_with_ttl", Geo1[1],
                [field |-> Geo1[2], ty |-> "UserTask", obj |-> Task1, ttl_seconds |-> t]) :
            t \in Seconds}
    \cup {Call("zadd", Queue1, [score |-> 3 - v, value |-> v]) : v \in IPs}

EveryCall == AllCalls \cup StoreCalls

\* a store earlier runs left records in: two peers of the node, a price, a
\* proxy account, a user in every milestone bucket and in the hash of the
\* store methods, two peers in the node's queue
StockedStore ==
    LET peers == [i \in IPs |-> [uuid |-> <<"u1">>, login_session_id |-> <<"s1">>, ip_u32 |-> i]]
        price == [user_addr |-> <<"a1">>, rate_per_kb |-> 1, rate_per_second |-> 1]
        pad == ProxyAcc(<<"x1">>, <<"pw1">>)
        task == Geo1[2] :> to_string_UserTask(Task1)
    IN [k \in Buckets |->
          CASE k = get_peers_kf(Node1, 0)[1] ->
                  [f \in {get_peers_kf(Node1, i)[2] : i \in IPs} |->
                      to_string_PeerChangedInfo(peers[parse_u32(f)])]
            [] k = get_price_kf(<<>>)[1] ->
                  get_price_kf(price.user_addr)[2] :> to_string_UserBandwidthPrice(price)
            [] k = get_proxy_acc_kf(<<>>)[1] ->
                  get_proxy_acc_kf(pad.id)[2] :> to_string_ProxyAccData(pad)
            [] k = Queue1 -> [f \in {fmt_u32(v) : v \in IPs} |-> 3 - parse_u32(f)]
            [] k \in {get_peers_kf(n, 0)[1] : n \in Nodes \ {Node1}}
                     \cup {get_peer_queue_k(n) : n \in Nodes \ {Node1}}
                     \cup {get_bonus_config_hash_key} -> EmptyHash
            [] OTHER -> task]

\* callers of every operation and of every store method
NextEvery ==
    \/ \E p \in Procs :
        \/ Hset(p, EveryCall, MaxCallsEvery)
        \/ Expire(p, EveryCall, MaxCallsEvery)
        \/ Hget(p, EveryCall, MaxCallsEvery)
        \/ Hdel(p, EveryCall, MaxCallsEvery)
        \/ Hgetall(p, EveryCall, MaxCallsEvery)
        \/ Zadd(p, EveryCall, MaxCallsEvery)
        \/ Zrem(p, EveryCall, MaxCallsEvery)
        \/ Zrange(p, EveryCall, MaxCallsEvery)
        \/ Publish(p, EveryCall, MaxCallsEvery)
        \/ Del(p, EveryCall, MaxCallsEvery)
    \/ Tick

SpecEvery == InitWith({EmptyStore, StockedStore}) /\ [][NextEvery]_vars

\* callers of every operation
Next ==
    \E p \in Procs :
        \/ Hset(p, AllCalls, MaxCallsAll)
        \/ Hdel(p, AllCalls, MaxCallsAll)
        \/ Hgetall(p, AllCalls, MaxCallsAll)
        \/ Publish(p, AllCalls, MaxCallsAll)
        \/ Del(p, AllCalls, MaxCallsAll)

Spec == Init /\ [][Next]_vars

\* callers of the peer operations of one node
NextPeers ==
    \E p \in Procs :
        \/ Hset(p, PeerCalls({Node1}), MaxCalls)
        \/ Hdel(p, PeerCalls({Node1}), MaxCalls)
        \/ Hgetall(p, PeerCalls({Node1}), MaxCalls)
        \/ Publish(p, PeerCalls({Node1}), MaxCalls)
        \/ Del(p, PeerCalls({Node1}), MaxCalls)

SpecPeers == InitWith(PeerStores(Node1)) /\ [][NextPeers]_vars

\* callers of the price operations
NextPrice ==
    \E p \in Procs :
        \/ Hset(p, PriceCalls, MaxCalls)
        \/ Hgetall(p, PriceCalls, MaxCalls)
        \/ Publish(p, PriceCalls, MaxCalls)

SpecPrice == InitWith(PriceStores) /\ [][NextPrice]_vars

\* callers of publish_proxy_acc and get_proxy_accs
NextProxy ==
    \E p \in Procs :
        \/ Hset(p, ProxyCalls, MaxCalls)
        \/ Hdel(p, ProxyCalls, MaxCalls)
        \/ Hgetall(p, ProxyCalls, MaxCalls)
        \/ Publish(p, ProxyCalls, MaxCalls)

SpecProxy == InitWith(ProxyStores) /\ [][NextProxy]_vars

\* callers that keep records of their own under the keys DPNRedisKey gives them:
\* hset(k, f, obj) with (k, f) the key function of a kind applied to an identifier
MaxCallsKeys == 2
GeoNodes == {<<"m">>, <<"m", "_", "a">>}
GeoSessions == {<<"s">>, <<"a", "_", "s">>}
Addrs == {<<"a", "1">>, <<"a", "_", "1">>}
KeyKinds ==
    {"geo", "balance", "peers", "price", "proxy_acc", "uptime_xp", "first_time_provider",
     "withdrawal_reward", "completed_8_hours_ot", "invite_friend_one_time",
     "completed_time_per_day", "user_addr_geo"}

\* the natural identifiers of a kind of record
Idents(kind) ==
    CASE kind = "geo" -> GeoNodes \X GeoSessions
      [] kind = "peers" -> Nodes \X IPs
      [] OTHER -> {<<a>> : a \in Addrs}

KeyOf(kind, ident) ==
    CASE kind = "geo" -> get_geo_kf(ident[1], ident[2])
      [] kind = "balance" -> get_balance_kf(ident[1])
      [] kind = "peers" -> get_peers_kf(ident[1], ident[2])
      [] kind = "price" -> get_price_kf(ident[1])
      [] kind = "proxy_acc" -> get_proxy_acc_kf(ident[1])
      [] kind = "uptime_xp" -> get_uptime_xp_kf(ident[1])
      [] kind = "first_time_provider" -> get_first_time_provider_kf(ident[1])
      [] kind = "withdrawal_reward" -> get_withdrawal_reward_kf(ident[1])
      [] kind = "completed_8_hours_ot" -> get_completed_8_hours_ot_kf(ident[1])
      [] kind = "invite_friend_one_time" -> get_invite_friend_one_time_kf(ident[1])
      [] kind = "completed_time_per_day" -> get_completed_time_per_day_kf(ident[1])
      [] kind = "user_addr_geo" -> get_user_addr_geo_kf(ident[1])

KeyCalls ==
    {Call("hset", KeyOf(kind, ident)[1],
          [field |-> KeyOf(kind, ident)[2], ty |-> "UserTask", obj |-> task,
           kind |-> kind, ident |-> ident]) :
        <<kind, ident, task>> \in
            UNION {{kind} \X Idents(kind) \X UserTasks : kind \in KeyKinds}}

NextKeys == \E p \in Procs : Hset(p, KeyCalls, MaxCallsKeys)

SpecKeys == Init /\ [][NextKeys]_vars

\* callers of the peer operations of two nodes
MaxCallsNodes == 2
NodeCalls ==
    {Call("publish_peer", n, [tag |-> t, info |-> Info1]) :
        n \in Nodes, t \in {"Connected", "Disconnected"}}
    \cup {Call("remove_all_peers", n, <<>>) : n \in Nodes}

NextNodes ==
    \E p \in Procs :
        \/ Hset(p, NodeCalls, MaxCallsNodes)
        \/ Hdel(p, NodeCalls, MaxCallsNodes)
        \/ Hgetall(p, NodeCalls, MaxCallsNodes)
        \/ Publish(p, NodeCalls, MaxCallsNodes)
        \/ Del(p, NodeCalls, MaxCallsNodes)

SpecNodes == InitWith({EmptyStore, StockedStore}) /\ [][NextNodes]_vars

\* one caller re-scores a queue that holds members 1 and 2 while the other
\* enqueues and dequeues
MaxCallsQueue == 4
RescoreCalls == {Call("zsetall", Queue1, [score |-> 9])}
QueueCalls ==
    {Call("zrem", Queue1, [value |-> 1]),
     Call("zadd", Queue1, [score |-> 5, value |-> 2]),
     Call("zadd", Queue1, [score |-> 5, value |-> 3])}

NextQueue ==
    \/ Zrange("c1", RescoreCalls, MaxCallsQueue)
    \/ Zadd("c1", RescoreCalls, MaxCallsQueue)
    \/ Zadd("c2", QueueCalls, MaxCallsQueue)
    \/ Zrem("c2", QueueCalls, MaxCallsQueue)

SpecQueue == InitLogged({StockedStore}) /\ [][NextQueue]_vars

\* callers of zadd, zrem and zsetall on a queue that holds nothing, three
\* members of three scores, or two members of one score
MaxCallsZset == 2
Scores == {10, 50}
QueueOf(z) == [EmptyStore EXCEPT ![Queue1] = z]
QueueStores ==
    {EmptyStore,
     QueueOf(fmt_u32(1) :> 50 @@ fmt_u32(2) :> 10 @@ fmt_u32(3) :> 30),
     QueueOf(fmt_u32(1) :> 30 @@ fmt_u32(2) :> 30)}
ZsetCalls ==
    {Call("zadd", Queue1, [score |-> s, value |-> v]) : s \in Scores, v \in IPs}
    \cup {Call("zrem", Queue1, [value |-> 1]), Call("zsetall", Queue1, [score |-> 30])}

NextZset ==
    \E p \in Procs :
        \/ Zadd(p, ZsetCalls, MaxCallsZset)
        \/ Zrem(p, ZsetCalls, MaxCallsZset)
        \/ Zrange(p, ZsetCalls, MaxCallsZset)

SpecZset == InitLogged(QueueStores) /\ [][NextZset]_vars

\* callers that enqueue peers 1, 2 and 3 with scores 50, 10 and 30 in any
\* order and list the queue
MaxCallsSorted == 4
SortedCalls ==
    {Call("zadd", Queue1, [score |-> 50, value |-> 1]),
     Call("zadd", Queue1, [score |-> 10, value |-> 2]),
     Call("zadd", Queue1, [score |-> 30, value |-> 3]),
     Call("zgetall", Queue1, <<>>)}

NextSorted ==
    \E p \in Procs :
        \/ Zadd(p, SortedCalls, MaxCallsSorted)
        \/ Zrange(p, SortedCalls, MaxCallsSorted)

SpecSorted == InitLogged({EmptyStore}) /\ [][NextSorted]_vars

\* one caller writes a record with a time to live, the other writes records
\* without one into the same bucket and reads, while time passes; the other
\* buckets hold what earlier calls left
MaxCallsTtl == 3
ExpiringCalls ==
    {Call("hset_with_ttl", Geo1[1],
          [field |-> Geo1[2], ty |-> "UserTask", obj |-> [user_addr |-> <<"a9">>],
           ttl_seconds |-> t]) :
        t \in Seconds}
PlainCalls ==
    {Call("hset", Geo1[1], [field |-> get_user_addr_geo_kf(a)[2], ty |-> "UserTask",
                            obj |-> [user_addr |-> a]]) : a \in {<<"a2">>, <<"a3">>}}
    \cup {Call("hget", Geo1[1], [field |-> Geo1[2], ty |-> "UserTask"])}

NextTtl ==
    \/ Hset("c1", ExpiringCalls, MaxCallsTtl)
    \/ Expire("c1", ExpiringCalls, MaxCallsTtl)
    \/ Hset("c2", PlainCalls, MaxCallsTtl)
    \/ Hget("c2", PlainCalls, MaxCallsTtl)
    \/ Tick

SpecTtl == InitLogged({StockedStore}) /\ [][NextTtl]_vars

\* one caller writes bonus configurations under two fields of their hash, the
\* other reads, deletes and enumerates
MaxCallsStore == 3
Amounts == {f64(1), f64(2), f64_INFINITY}
BonusConfigs ==
    {[country_geoname_id |-> 7, country_name |-> <<"vn">>, bonus_amount |-> x,
      created_at |-> 1, updated_at |-> 1] : x \in Amounts}
BonusFields == {<<"f1">>, <<"f2">>}
WriteCalls ==
    {Call("hset", get_bonus_config_hash_key, [field |-> f, ty |-> "BonusConfig", obj |-> v]) :
        f \in BonusFields, v \in BonusConfigs}
ReadCalls ==
    {Call("hget", get_bonus_config_hash_key, [field |-> <<"f1">>, ty |-> "BonusConfig"]),
     Call("hdel", get_bonus_config_hash_key, [field |-> <<"f1">>]),
     Call("del", get_bonus_config_hash_key, <<>>),
     Call("hgetall", get_bonus_config_hash_key, [ty |-> "BonusConfig"])}
NextStore ==
    \/ Hset("c1", WriteCalls, MaxCallsStore)
    \/ Hget("c2", ReadCalls, MaxCallsStore)
    \/ Hdel("c2", ReadCalls, MaxCallsStore)
    \/ Del("c2", ReadCalls, MaxCallsStore)
    \/ Hgetall("c2", ReadCalls, MaxCallsStore)

SpecStore == InitLogged({EmptyStore}) /\ [][NextStore]_vars

\* one caller enumerates and sweeps the peers of a node whose bucket holds
\* two peers, the other writes into that bucket a record of another type
MaxCallsDecode == 3
PeerBucket == get_peers_kf(Node1, 0)[1]
EnumerateCalls ==
    {Call("hgetall", PeerBucket, [ty |-> "PeerChangedInfo"]),
     Call("get_peers", Node1, <<>>),
     Call("remove_all_peers", Node1, <<>>)}
ForeignCalls ==
    {Call("hset", PeerBucket, [field |-> <<"a1">>, ty |-> "UserTask", obj |-> Task1])}

NextDecode ==
    \/ Hgetall("c1", EnumerateCalls, MaxCallsDecode)
    \/ Publish("c1", EnumerateCalls, MaxCallsDecode)
    \/ Del("c1", EnumerateCalls, MaxCallsDecode)
    \/ Hset("c2", ForeignCalls, MaxCallsDecode)

SpecDecode == InitLogged({StockedStore}) /\ [][NextDecode]_vars

\* one caller makes every publish call, for either user, and every remove-all
\* call, one after the other, and enumerates the buckets they write
MaxCallsRetry == 2
MilestoneOps ==
    {"publish_first_time_provider", "publish_withdrawal_reward",
     "publish_completed_8_hours_ot", "publish_completed_time_per_day"}
RetryCalls ==
    AllCalls
    \cup {Call(op, <<>>, task) :
            op \in MilestoneOps \cup {"publish_invite_friend_one_time"}, task \in UserTasks}
    \cup {Call("hgetall", get_withdrawal_reward_kf(<<>>)[1], [ty |-> "UserTask"]),
          Call("zsetall", Queue1, [score |-> 9])}

NextRetry ==
    \/ Hset("c1", RetryCalls, MaxCallsRetry)
    \/ Hdel("c1", RetryCalls, MaxCallsRetry)
    \/ Hgetall("c1", RetryCalls, MaxCallsRetry)
    \/ Publish("c1", RetryCalls, MaxCallsRetry)
    \/ Del("c1", RetryCalls, MaxCallsRetry)
    \/ Zrange("c1", RetryCalls, MaxCallsRetry)
    \/ Zadd("c1", RetryCalls, MaxCallsRetry)

SpecRetry == InitWith({EmptyStore, StockedStore}) /\ [][NextRetry]_vars

\* one caller makes the publish and remove-all calls, and re-scores the
\* queue, one call after the other
MaxCallsTwice == 2
ReadOps == {"get_peers", "get_peers_price", "get_proxy_accs"}
TwiceCalls ==
    {c \in AllCalls : c.op \notin ReadOps} \cup {Call("zsetall", Queue1, [score |-> 9])}

NextTwice ==
    \/ Hset("c1", TwiceCalls, MaxCallsTwice)
    \/ Hdel("c1", TwiceCalls, MaxCallsTwice)
    \/ Hgetall("c1", TwiceCalls, MaxCallsTwice)
    \/ Publish("c1", TwiceCalls, MaxCallsTwice)
    \/ Del("c1", TwiceCalls, MaxCallsTwice)
    \/ Zrange("c1", TwiceCalls, MaxCallsTwice)
    \/ Zadd("c1", TwiceCalls, MaxCallsTwice)

SpecTwice == InitLogged({EmptyStore, StockedStore}) /\ [][NextTwice]_vars

\* one caller publishes peers, prices and proxy accounts of every address and
\* id, enumerates them and removes them, one call after the other
MaxCallsBuckets == 2
BucketCalls ==
    PeerCalls({Node1}) \cup PriceCalls \cup ProxyCalls
    \cup {Call("remove_all_proxy_accs", <<>>, <<>>)}

NextBuckets ==
    \/ Hset("c1", BucketCalls, MaxCallsBuckets)
    \/ Hdel("c1", BucketCalls, MaxCallsBuckets)
    \/ Hgetall("c1", BucketCalls, MaxCallsBuckets)
    \/ Publish("c1", BucketCalls, MaxCallsBuckets)
    \/ Del("c1", BucketCalls, MaxCallsBuckets)

SpecBuckets == InitWith({EmptyStore}) /\ [][NextBuckets]_vars

\* a stream payload is converted to its wire message and back, and a proxy
\* payload is also encoded with to_vec, read with from_bytes and encoded again
MaxLenPayload == 2
PayloadBytes == {16, 200}
Topics == {<<>>, <<99, 95>>}
StreamIds == {0, 4, 300}
Durations == {0, 300}
ProxyPayloads ==
    {[origin |-> [origin_topic |-> t, stream_id |-> s, duration |-> d], payload |-> b] :
        t \in Topics, s \in StreamIds, d \in Durations,
        b \in UNION {[1..n -> PayloadBytes] : n \in 0..MaxLenPayload}}
StreamPayloads ==
    {[tag |-> "ProxyPayload", val |-> p] : p \in ProxyPayloads}
    \cup {[tag |-> "VPNPayload", val |-> VPNPayload],
          [tag |-> "HealthCheck", val |-> HealthCheck]}
Sendable ==
    {[kind |-> "ProxyPayload", v |-> p] : p \in ProxyPayloads}
    \cup {[kind |-> "StreamPayload", v |-> p] : p \in StreamPayloads}

ServiceIdle == UNCHANGED <<store, ttl, chan, view, pc, ncalls, overlap, failed, last, log>>

IntoProto ==
    /\ wire.at = "domain"
    /\ wire' = [wire EXCEPT !.at = "proto",
                            !.val = IF wire.sent.kind = "ProxyPayload"
                                    THEN ProxyPayload_into(wire.val)
                                    ELSE StreamPayload_into(wire.val)]
    /\ ServiceIdle

IntoDomain ==
    /\ wire.at = "proto"
    /\ wire' = [wire EXCEPT !.at = "received",
                            !.val = IF wire.sent.kind = "ProxyPayload"
                                    THEN Done(ProtoProxyPayload_into(wire.val))
                                    ELSE ProtoStreamPayload_into(wire.val)]
    /\ ServiceIdle

ToVec ==
    /\ wire.at = "domain" /\ wire.sent.kind = "ProxyPayload"
    /\ wire' = [wire EXCEPT !.at = "bytes", !.val = to_vec(wire.val)]
    /\ ServiceIdle

FromBytes ==
    /\ wire.at = "bytes"
    /\ wire' = [wire EXCEPT !.at = "received", !.val = from_bytes(wire.val)]
    /\ ServiceIdle

ToVecAgain ==
    /\ wire.at = "received" /\ wire.sent.kind = "ProxyPayload" /\ wire.val.ok
    /\ wire' = [wire EXCEPT !.at = "resent", !.val = to_vec(wire.val.val)]
    /\ ServiceIdle

NextWire == IntoProto \/ IntoDomain \/ ToVec \/ FromBytes \/ ToVecAgain

SpecWire ==
    /\ InitService({EmptyStore}, FALSE)
    /\ wire \in {[at |-> "domain", sent |-> s, val |-> s.v] : s \in Sendable}
    /\ [][NextWire]_vars

\* ------------------------------------------------------------ the claims

Quiet == \A p \in Procs : ~Running(p)
Serial == ~overlap

\* this step completed a call: `last'` is that call
Completes == last'.id # last.id

\* the store calls of the given kinds among those a call completed, in order
Only(done, kinds) == SelectSeq(done, LAMBDA c : c.cmd \in kinds)
Published(done) == Only(done, {"publish"})
Mutated(done) == Only(done, {"hset", "hdel", "del"})
Vals(cmds) == {cmds[i].val : i \in 1..Len(cmds)}

\* this step added store call number Len(pc'[p].done) to those p's call completed
Did(p) == Len(pc'[p].done) = Len(pc[p].done) + 1
Step(p) == pc'[p].done[Len(pc'[p].done)]

\* the effect a completed hset or hdel has on the store at the moment it is applied
Applied(c) ==
    /\ c.cmd = "hset" => c.field \in DOMAIN store'[c.key] /\ store'[c.key][c.field] = c.val
    /\ c.cmd = "hdel" => c.field \notin DOMAIN store'[c.key]

\* the record a completed hset or hdel left is what the store holds
Readable(c) ==
    /\ c.cmd = "hset" => c.field \in DOMAIN store[c.key] /\ store[c.key][c.field] = c.val
    /\ c.cmd = "hdel" => c.field \notin DOMAIN store[c.key]

MutatingPublish(call) ==
    \/ call.op \in {"publish_peer", "publish_peer_price", "publish_first_time_provider",
                    "publish_withdrawal_reward", "publish_completed_8_hours_ot",
                    "publish_completed_time_per_day"}
    \/ call.op = "publish_proxy_acc" /\ call.arg.tag # "RefreshAll"

C1_MutationDone ==
    \A p \in Procs : \A m \in Moves(p, AllCalls, MaxCallsAll) :
        MutatingPublish(m.call) /\ Head(m.todo).cmd = "publish"
            => Len(Only(m.done, {"hset", "hdel"})) = 1

C1_MutationApplied == \A p \in Procs : Did(p) => Applied(Step(p))

\* C1: in every interleaving, a mutating publish operation sends its broadcast
\* only after its own hset/hdel has completed, and that hset/hdel took effect
\* in the store at the step it completed.
C1_MutationBeforeBroadcast == []C1_MutationDone /\ [][C1_MutationApplied]_vars

\* two concurrent mutating publishes have both mutated and neither has broadcast
C1_Witness ==
    \A p \in Procs :
        /\ Running(p) /\ MutatingPublish(pc[p].call)
        /\ Head(pc[p].todo).cmd = "publish" /\ Len(pc[p].done) = 1

SweepOf(r) == r.call.op = "remove_all_peers"
Announced(r) == Vals(Only(r.done, {"publish"}))
DisconnectedOf(h) ==
    {to_string_PeerChanged(Disconnected(from_str_PeerChangedInfo(h[f]).val)) : f \in DOMAIN h}

C2_Step ==
    Completes /\ SweepOf(last') /\ last'.res.ok
        => DisconnectedOf(store[get_peers_kf(last'.call.id, 0)[1]]) \subseteq Announced(last')

\* C2: every record the del of a remove_all_peers removes has had its
\* Disconnected event broadcast by that sweep, also when publish_peer(Connected)
\* runs between the sweep's hgetall and its del.
C2_EveryRemovedPeerAnnounced == [][C2_Step]_vars

BroadcastFailedAfterMutation(r) ==
    /\ Len(r.fails) > 0 /\ r.fails[1].cmd = "publish"
    /\ Len(Only(r.done, {"hset", "hdel"})) > 0

C3_Reported ==
    BroadcastFailedAfterMutation(last) =>
        /\ ~last.res.ok
        /\ Serial /\ Quiet => \A i \in 1..Len(last.done) : Readable(last.done[i])

C3_NoRollback == Completes /\ BroadcastFailedAfterMutation(last') => store' = store

\* C3: a publish operation whose mutation succeeded and whose broadcast failed
\* returns an error, the failing step leaves the store as it was, and with no
\* other call around the record it wrote is still in the store (the field it
\* deleted still absent).
C3_PartialFailure == []C3_Reported /\ [][C3_NoRollback]_vars

\* a second call, alone, deleted a record and its broadcast failed
C3_Witness ==
    /\ BroadcastFailedAfterMutation(last) /\ Serial /\ Quiet
    /\ last.done[1].cmd = "hdel" /\ ncalls = 2

C4_Sweep ==
    Completes /\ SweepOf(last') /\ last'.res.ok /\ ~overlap' =>
        LET k == get_peers_kf(last'.call.id, 0)[1]
            d == last'.done
            n == Cardinality(DOMAIN store[k])
        IN /\ Len(d) = n + 2
           /\ d[1].cmd = "hgetall" /\ d[n + 2].cmd = "del"
           /\ \A i \in 2..(n + 1) :
                d[i].cmd = "publish" /\ d[i].key = get_peers_chan(last'.call.id)
           /\ {d[i].val : i \in 2..(n + 1)} = DisconnectedOf(store[k])
           /\ store' = [store EXCEPT ![k] = EmptyHash]

C4_ThenEmpty ==
    /\ Completes /\ last'.call.op = "get_peers" /\ last'.res.ok /\ ~overlap'
    /\ SweepOf(last) /\ last.res.ok /\ last.call.id = last'.call.id
    => last'.res.val = <<>>

\* C4: a remove_all_peers that runs alone and without a failing store call on
\* a bucket of N records broadcasts exactly N Disconnected events on the
\* node's channel, one per record, all before its del, and the get_peers that
\* follows returns the empty sequence.
C4_SweepAnnouncesEachOnce == [][C4_Sweep /\ C4_ThenEmpty]_vars

\* a sweep of two records has completed alone
C4_Witness ==
    /\ SweepOf(last) /\ last.res.ok /\ Serial
    /\ Len(Published(last.done)) = 2
    /\ store[get_peers_kf(last.call.id, 0)[1]] = EmptyHash

SweepAborted(r) == SweepOf(r) /\ Len(r.fails) > 0 /\ r.fails[1].cmd = "publish"

C5_Abort ==
    Completes /\ SweepAborted(last') =>
        LET k == get_peers_kf(last'.call.id, 0)[1] IN
        /\ ~last'.res.ok
        /\ Len(last'.fails) = 1
        /\ Mutated(last'.done) = <<>>
        /\ \A p \in Procs : pc'[p].id # last'.id
        /\ store' = store /\ view' = view /\ chan' = chan
        /\ ~overlap' =>
             /\ Announced(last') \subseteq DisconnectedOf(store'[k])
             /\ Len(Published(last'.done)) < Cardinality(DOMAIN store'[k])

C5_Retry ==
    /\ Completes /\ SweepOf(last') /\ last'.res.ok /\ ~overlap'
    /\ SweepAborted(last) /\ last.call.id = last'.call.id
    => /\ Announced(last) \subseteq Announced(last')
       /\ Len(Published(last.done)) < Len(Published(last'.done))

\* C5: the first failing broadcast of a remove_all_peers ends the call with an
\* error: nothing more is attempted, what was broadcast stays, the bucket is
\* not deleted, so (the sweep running alone) every enumerated record is still
\* stored, and a retry of the sweep broadcasts Disconnected for them again.
C5_SweepAbortsOnFirstFailure == [][C5_Abort /\ C5_Retry]_vars

\* a sweep running alone was aborted by its second broadcast
C5_Witness == SweepAborted(last) /\ Serial /\ Len(Published(last.done)) = 1

PeerChan == get_peers_chan(Node1)

\* a sequence lists the values of a hash, each once
Lists(seq, h) ==
    /\ Len(seq) = Cardinality(DOMAIN h)
    /\ {seq[i] : i \in 1..Len(seq)} = {h[f] : f \in DOMAIN h}

\* C6: after publish_peer calls made one at a time that all succeeded, the
\* node's bucket holds exactly, per peer address, the info of the last
\* Connected event if that is the address's latest event; get_peers returns
\* those infos, one each; and each call broadcast one event, its serialized
\* status, on the node's channel.
C6_PeersFollowEvents ==
    /\ Serial /\ ~failed /\ Quiet =>
         /\ Records(store[PeerBucket], "PeerChangedInfo") = view[PeerChan]
         /\ \A f \in DOMAIN view[PeerChan] : f = fmt_u32(view[PeerChan][f].ip_u32)
         /\ last.call.op = "get_peers" /\ last.res.ok => Lists(last.res.val, view[PeerChan])
    /\ last.call.op = "publish_peer" /\ last.res.ok =>
         /\ Len(Published(last.done)) = 1
         /\ Published(last.done)[1].key = get_peers_chan(last.call.id)
         /\ Published(last.done)[1].val = to_string_PeerChanged(last.call.arg)
         /\ Serial /\ Quiet => chan[get_peers_chan(last.call.id)] = to_string_PeerChanged(last.call.arg)

\* a get_peers after a successful publish_peer returned two peers
C6_Witness ==
    /\ Serial /\ ~failed /\ Quiet /\ ncalls = 2
    /\ last.call.op = "get_peers" /\ last.res.ok /\ Len(last.res.val) = 2
    /\ chan[PeerChan] # NoMsg

PriceBucket == get_price_kf(<<>>)[1]

C7_SerialAgree ==
    Serial /\ ~failed /\ Quiet =>
        Records(store[PriceBucket], "UserBandwidthPrice") = view[get_price_chan]

C7_LastWriteWins ==
    \A p \in Procs : Did(p) /\ Step(p).cmd = "hset" =>
        store' = [store EXCEPT ![Step(p).key] =
                     [f \in DOMAIN store[Step(p).key] \cup {Step(p).field} |->
                        IF f = Step(p).field THEN Step(p).val ELSE store[Step(p).key][f]]]

C7_OnlyWrites == store' # store => \E p \in Procs : Did(p) /\ Step(p).cmd = "hset"

\* C7: every hset of a publish_peer_price replaces the user's record and
\* nothing else changes a record, so the record is the value of the hset that
\* reached the store last; when the calls are made one at a time and succeed,
\* the record of every user is the price last broadcast for that user.
C7_PriceRecordIsLastWrite ==
    []C7_SerialAgree /\ [][C7_LastWriteWins /\ C7_OnlyWrites]_vars

\* two overlapping successful publish_peer_price calls for one user have both
\* returned, and the last event on the price channel carries the value that
\* the record does not hold
C7_Witness ==
    /\ Quiet /\ ~failed /\ overlap /\ ncalls = 2 /\ chan[get_price_chan] # NoMsg
    /\ LET ev == from_str_UserBandwidthPrice(chan[get_price_chan]).val
       IN Records(store[PriceBucket], "UserBandwidthPrice")[ev.user_addr] # ev

ProxyBucket == get_proxy_acc_kf(<<>>)[1]

RefreshAllCall(r) == r.call.op = "publish_proxy_acc" /\ r.call.arg.tag = "RefreshAll"

\* this step is a store call of a publish_proxy_acc(RefreshAll)
C8_Steps ==
    \/ Completes /\ RefreshAllCall(last')
    \/ \E p \in Procs : pc'[p] # pc[p] /\ pc'[p].todo # <<>> /\ RefreshAllCall(pc'[p])

C8_Step ==
    /\ C8_Steps => store' = store /\ ttl' = ttl
    /\ Completes /\ RefreshAllCall(last') =>
        /\ Mutated(last'.done) = <<>>
        /\ last'.res.ok =>
             /\ Len(last'.done) = 1 /\ last'.done[1].cmd = "publish"
             /\ last'.done[1].key = get_proxy_acc_chan
             /\ chan' = [chan EXCEPT ![get_proxy_acc_chan] =
                            to_string_ProxyAccChanged(last'.call.arg)]

\* C8: publish_proxy_acc(RefreshAll) issues no hset, hdel or del and leaves
\* every bucket as it was; when it succeeds it has broadcast one event, the
\* serialized RefreshAll, on the proxy-account channel and on no other.
C8_RefreshAllOnlyBroadcasts == [][C8_Step]_vars

\* a RefreshAll succeeded over a bucket that holds accounts
C8_Witness ==
    /\ RefreshAllCall(last) /\ last.res.ok /\ store[ProxyBucket] # EmptyHash
    /\ chan[get_proxy_acc_chan] = to_string_ProxyAccChanged(last.call.arg)

C9_Broadcast ==
    last.call.op = "publish_proxy_acc" /\ last.res.ok =>
        /\ Len(Published(last.done)) = 1
        /\ Published(last.done)[1].key = get_proxy_acc_chan
        /\ Published(last.done)[1].val = to_string_ProxyAccChanged(last.call.arg)

C9_Latest ==
    Serial /\ ~failed /\ Quiet =>
        /\ Records(store[ProxyBucket], "ProxyAccData") = view[get_proxy_acc_chan]
        /\ last.call.op = "get_proxy_accs" /\ last.res.ok =>
             Lists(last.res.val, view[get_proxy_acc_chan])

C9_Effect ==
    \A p \in Procs :
        Did(p) /\ pc'[p].call.op = "publish_proxy_acc" /\ Len(pc'[p].done) = 1 =>
            LET change == pc'[p].call.arg IN
            /\ change.tag \in {"Created", "Updated"} =>
                 store' = [store EXCEPT ![ProxyBucket] =
                             (change.arg.id :> to_string_ProxyAccData(change.arg)) @@ @]
            /\ change.tag = "Deleted" =>
                 store' = [store EXCEPT ![ProxyBucket] = HashWithout(@, change.arg)]

C10_FailuresSurface ==
    /\ last.fails # <<>> => ~last.res.ok
    /\ \A p \in Procs : pc[p].fails = <<>>

\* a zsetall over two members re-scored the first, and its second zadd failed
C10_Witness ==
    /\ last.call.op = "zsetall" /\ ~last.res.ok
    /\ Len(last.fails) = 1 /\ last.fails[1].cmd = "zadd" /\ Len(last.done) = 2

PerDay(r) == r.call.op = "publish_completed_time_per_day"
HsetFailed(r) == Len(r.fails) > 0 /\ r.fails[1].cmd = "hset"
Broadcasts(r) == Len(Published(r.done)) + Len(Only(r.fails, {"publish"}))

\* C11 as stated: a publish_completed_time_per_day whose hset failed does not
\* return that failure first; it goes on to the broadcast and returns the
\* broadcast's own result.
C11_HsetFailureNotPropagated ==
    PerDay(last) /\ HsetFailed(last) =>
        /\ Broadcasts(last) = 1
        /\ last.res.ok <=> Len(Published(last.done)) = 1

\* C11: publish_completed_time_per_day returns a failure of its hset first,
\* under the text "redis set completed time per day failed err=", and then
\* attempts no broadcast, as its sibling milestone methods do; it differs
\* from them only in the broadcast: a failed publish is returned as the
\* publish method reported it, with no text of the operation before it.
C11_HsetFailurePropagatedFirst ==
    PerDay(last) =>
        /\ HsetFailed(last) =>
              /\ last.res \in {Err(<<"redis set completed time per day failed err=">> \o e) :
                                  e \in {ConnErr, hset_err}}
              /\ Broadcasts(last) = 0 /\ last.done = <<>>
        /\ Len(last.fails) > 0 /\ ~HsetFailed(last) =>
              /\ last.fails[1].cmd = "publish" /\ Len(Mutated(last.done)) = 1
              /\ last.res \in {Err(ConnErr), Err(publish_err)}
        /\ last.fails = <<>> => last.res = Ok(Unit) /\ Broadcasts(last) = 1

\* the hset of a publish_completed_time_per_day failed and the call returned
C11_Witness == PerDay(last) /\ HsetFailed(last) /\ ~last.res.ok

PublishOp(call) == MutatingPublish(call) \/ call.op = "publish_proxy_acc"
Phase(c) == IF c.cmd = "publish" THEN "broadcast" ELSE "mutation"

\* the errors the publish operations return when a store call of phase `ph` fails
PhaseErrors(ph) ==
    UNION {{Script(call)[i].wrap \o Fault(out, Script(call)[i].err) : out \in {"conn", "cmd"}} :
             <<call, i>> \in {ci \in {c \in AllCalls : PublishOp(c)} \X (1..2) :
                                /\ ci[2] <= Len(Script(ci[1]))
                                /\ Phase(Script(ci[1])[ci[2]]) = ph}}

\* C12: the error a failed publish operation returns identifies the phase
\* that failed: an error returned for a failed record mutation is never an
\* error a publish operation returns for a failed broadcast, and the reverse.
C12_ErrorIdentifiesPhase ==
    PublishOp(last.call) /\ Len(last.fails) > 0 =>
        /\ last.res.err \in PhaseErrors(Phase(last.fails[1]))
        /\ last.res.err \notin PhaseErrors(IF Phase(last.fails[1]) = "mutation"
                                           THEN "broadcast" ELSE "mutation")

C13_Step ==
    Completes /\ last'.call \in KeyCalls /\ last'.res.ok =>
        \A ident \in Idents(last'.call.arg.kind) \ {last'.call.arg.ident} :
            LET kf == KeyOf(last'.call.arg.kind, ident) IN
            kf[2] \in DOMAIN store[kf[1]] =>
                kf[2] \in DOMAIN store'[kf[1]] /\ store'[kf[1]][kf[2]] = store[kf[1]][kf[2]]

\* C13: for every key function that returns a (bucket, field) pair, distinct
\* identifiers never get the same field of the same bucket: writing the
\* record of one identifier leaves the record kept for any other identifier
\* of that kind as it was (for get_geo_kf the identifier is the pair
\* (masternode_id, login_session_id)).
C13_DistinctIdentifiersDistinctFields == [][C13_Step]_vars

PeerOp(call) == call.op \in {"publish_peer", "remove_all_peers"}
NodeKeys(n) == {get_peers_kf(n, 0)[1], get_peers_chan(n), get_peer_queue_k(n)}
CmdsOf(r) == {r.done[i] : i \in 1..Len(r.done)} \cup {r.fails[i] : i \in 1..Len(r.fails)}

\* the keys of two nodes are six different names
C14_KeysApart ==
    \A n, o \in Nodes : n # o => NodeKeys(n) \cap NodeKeys(o) = {}

\* every store call of a peer operation names a key of the operation's node
C14_OwnKeys ==
    /\ PeerOp(last.call) => \A c \in CmdsOf(last) : c.key \in NodeKeys(last.call.id)
    /\ \A p \in Procs : Running(p) /\ PeerOp(pc[p].call) =>
          \A c \in CmdsOf(pc[p]) \cup {Head(pc[p].todo)} : c.key \in NodeKeys(pc[p].call.id)

\* a step of a peer operation of node n leaves what the other nodes have
Apart(call) ==
    PeerOp(call) =>
        \A o \in Nodes \ {call.id} :
            /\ store'[get_peers_kf(o, 0)[1]] = store[get_peers_kf(o, 0)[1]]
            /\ store'[get_peer_queue_k(o)] = store[get_peer_queue_k(o)]
            /\ chan'[get_peers_chan(o)] = chan[get_peers_chan(o)]
            /\ view'[get_peers_chan(o)] = view[get_peers_chan(o)]

C14_Frame ==
    /\ Completes => Apart(last'.call)
    /\ \A p \in Procs : pc'[p] # pc[p] /\ Running(p)' => Apart(pc'[p].call)

\* C14: distinct nodes share no peer bucket, peer channel or peer queue key:
\* in every interleaving, every store call of publish_peer and
\* remove_all_peers for node N names N's keys only, and each of their steps
\* leaves the peer bucket and queue of every other node M unchanged and sends
\* nothing on M's peer channel.
C14_NodesApart == [](C14_KeysApart /\ C14_OwnKeys) /\ [][C14_Frame]_vars

\* a sweep of n1 that announced a peer ran while a publish_peer brought n2 a
\* peer: n2's record and n2's event are there after the sweep emptied n1
C14_Witness ==
    /\ Quiet /\ overlap /\ ~failed
    /\ SweepOf(last) /\ last.call.id = <<"n1">> /\ Len(Published(last.done)) > 0
    /\ store[get_peers_kf(<<"n1">>, 0)[1]] = EmptyHash
    /\ store[get_peers_kf(<<"n2">>, 0)[1]] # EmptyHash
    /\ chan[get_peers_chan(<<"n2">>)] # NoMsg

Queue == store[Queue1]
Logged == log.calls
OkCall(e, op) == e.call.op = op /\ e.res.ok
After(i) == {j \in DOMAIN Logged : j > i}

\* member v is in the queue though the last successful call on v was a zrem
Resurrected(v) ==
    \E i \in DOMAIN Logged :
        /\ OkCall(Logged[i], "zrem") /\ Logged[i].call.arg.value = v
        /\ \A j \in After(i) : ~(OkCall(Logged[j], "zadd") /\ Logged[j].call.arg.value = v)
        /\ fmt_u32(v) \in DOMAIN Queue

\* the last successful call on v was a zadd, no zsetall began after that zadd,
\* and v does not have the score the zadd gave it
Overwritten(v) ==
    \E i \in DOMAIN Logged :
        /\ OkCall(Logged[i], "zadd") /\ Logged[i].call.arg.value = v
        /\ \A j \in After(i) :
              /\ Logged[j].call.op \in {"zadd", "zrem"} /\ Logged[j].res.ok
                    => Logged[j].call.arg.value # v
              /\ Logged[j].call.op = "zsetall" => Logged[j].id < Logged[i].id
        /\ \A p \in Procs : Running(p) => pc[p].id < Logged[i].id
        /\ fmt_u32(v) \in DOMAIN Queue /\ Queue[fmt_u32(v)] # Logged[i].call.arg.score

\* the call completed last is a successful zsetall(s), no call is in progress,
\* and member v has a score other than s
Missed(v) ==
    /\ Quiet /\ Logged # <<>> /\ OkCall(Logged[Len(Logged)], "zsetall")
    /\ fmt_u32(v) \in DOMAIN Queue
    /\ Queue[fmt_u32(v)] # Logged[Len(Logged)].call.arg.score

\* C15: when the calls on a queue are made one at a time, (a) no member
\* removed by a completed zrem is present again without a later zadd of it,
\* (b) no score set by a completed zadd is replaced except by a call begun
\* after it, and (c) after a successful zsetall(q, s) every member has score
\* s; each of the three is reachable when zadd and zrem run during a zsetall.
C15_SerialQueueKeepsUpdates ==
    Serial => \A v \in 1..3 : ~Resurrected(v) /\ ~Overwritten(v) /\ ~Missed(v)

\* during one zsetall(q, 9) that had read members 1 and 2, a zrem of 1, a
\* zadd of 2 and a zadd of the new member 3 completed: after the zsetall 1
\* is back, 2 has lost the score of its zadd and 3 does not have score 9
C15_Witness ==
    /\ overlap /\ ~failed /\ Len(Logged) = 4
    /\ \A i \in 1..3 : Logged[i].id > Logged[4].id
    /\ Resurrected(1) /\ Overwritten(2) /\ Missed(3)

\* the members a zsetall has re-scored so far, as the queue names them
Rescored(done) == {fmt_u32(done[i].field) : i \in 2..Len(done)}

C16_Step ==
    /\ \A p \in Procs :
          pc'[p] # pc[p] /\ Running(p)' /\ pc'[p].call.op = "zsetall" /\ ~overlap' =>
              DOMAIN store'[pc'[p].call.id] = DOMAIN store[pc'[p].call.id]
    /\ Completes /\ OkCall(last', "zsetall") /\ ~overlap' =>
          LET q == last'.call.id IN
          /\ DOMAIN store'[q] = DOMAIN store[q]
          /\ \A member \in DOMAIN store'[q] : store'[q][member] = last'.call.arg.score
          /\ Rescored(last'.done) = DOMAIN store'[q]
          /\ Len(last'.done) = 1 + Cardinality(DOMAIN store'[q])
          /\ store[q] = EmptyHash => store' = store /\ Len(last'.done) = 1

\* C16: a zsetall(q, s) that succeeds with no other call during it keeps the
\* member set of q at every step, has re-scored every member once, and
\* leaves every member with score s whatever its score was; on the empty
\* queue it reads and changes nothing.
C16_ZsetallRescoresAll == [][C16_Step]_vars

\* alone, a zsetall(q, 30) re-scored the three members that had scores 50,
\* 10 and 30
C16_Witness ==
    /\ Len(Logged) = 1 /\ OkCall(last, "zsetall") /\ ~overlap
    /\ Queue = [member \in {fmt_u32(v) : v \in 1..3} |-> 30]

Entries(z, v) == {i \in DOMAIN z : z[i][1] = v}

C17_Step ==
    Completes /\ OkCall(last', "zadd") =>
        LET q == last'.call.id
            member == fmt_u32(last'.call.arg.value)
            z == zrange_withscores(store', q) IN
        /\ store'[q][member] = last'.call.arg.score
        /\ \A other \in DOMAIN store[q] \ {member} :
              other \in DOMAIN store'[q] /\ store'[q][other] = store[q][other]
        /\ DOMAIN store'[q] = DOMAIN store[q] \cup {member}
        /\ Cardinality(Entries(z, last'.call.arg.value)) = 1
        /\ \A i \in Entries(z, last'.call.arg.value) : z[i][2] = last'.call.arg.score
        /\ OkCall(last, "zadd") /\ last.call.id = q
              /\ last.call.arg.value = last'.call.arg.value
              => DOMAIN store'[q] = DOMAIN store[q]

\* C17: zadd is an upsert: a successful zadd(q, s, m) leaves q with exactly
\* one entry for m, of score s, and every other member with its score; a
\* zadd(q, s2, m) that follows a zadd(q, s1, m) adds no entry, so m has the
\* one entry, with score s2.
C17_ZaddUpserts == [][C17_Step]_vars

\* in a queue of three members, zadd(q, 50, 2) and then zadd(q, 10, 2): member
\* 2 has the one entry, of score 10, and members 1 and 3 kept their scores
C17_Witness ==
    /\ Len(Logged) = 2 /\ ~overlap
    /\ \A i \in 1..2 : OkCall(Logged[i], "zadd") /\ Logged[i].call.arg.value = 2
    /\ Logged[1].call.arg.score = 50 /\ Logged[2].call.arg.score = 10
    /\ Queue = (fmt_u32(1) :> 50 @@ fmt_u32(2) :> 10 @@ fmt_u32(3) :> 30)

C18_Step ==
    Completes /\ OkCall(last', "zgetall") =>
        LET r == last'.res.val
            z == store[last'.call.id] IN
        /\ Len(r) = Cardinality(DOMAIN z)
        /\ {fmt_u32(r[i][1]) : i \in DOMAIN r} = DOMAIN z
        /\ \A i \in DOMAIN r : r[i][2] = z[fmt_u32(r[i][1])]
        /\ \A i, j \in DOMAIN r : i < j => r[i][2] <= r[j][2]
        /\ z = (fmt_u32(1) :> 50 @@ fmt_u32(2) :> 10 @@ fmt_u32(3) :> 30)
              => r = << <<2, 10>>, <<3, 30>>, <<1, 50>> >>

\* C18: a successful zgetall(q) returns one (member, score) pair for every
\* member of q, with the member's score, in ascending order of score, in
\* whatever order the members were enqueued: the queue of (1, 50), (2, 10),
\* (3, 30) is returned as [(2, 10), (3, 30), (1, 50)].
C18_ZgetallSortedByScore == [][C18_Step]_vars

\* peers 1, 2, 3 were enqueued in this order with scores 50, 10, 30 and the
\* zgetall after them returned peer 2, peer 3, peer 1
C18_Witness ==
    /\ Len(Logged) = 4 /\ \A i \in 1..4 : Logged[i].res.ok
    /\ \A i \in 1..3 : Logged[i].call.op = "zadd" /\ Logged[i].call.arg.value = i
    /\ Logged[4].call.op = "zgetall"
    /\ Logged[4].res.val = << <<2, 10>>, <<3, 30>>, <<1, 50>> >>

Ttl(e) == as_i64(e.call.arg.ttl_seconds)
Reads(e, w) ==
    /\ e.call.op = "hget" /\ e.call.id = w.call.id /\ e.call.arg.field = w.call.arg.field
    /\ e.fails = <<>> /\ e.id = w.id + 1
Ticks(i, j) == {n \in DOMAIN Logged : i < n /\ n < j /\ Logged[n] = Elapsed}

\* the hget that comes right after a successful hset_with_ttl returns its value
C19_ReadBack ==
    \A i \in DOMAIN Logged :
        /\ OkCall(Logged[i], "hset_with_ttl") /\ Logged[i].call.arg.ttl_seconds # u64(0)
        /\ i + 1 \in DOMAIN Logged /\ Reads(Logged[i + 1], Logged[i])
        => Logged[i + 1].res = Ok(Logged[i].call.arg.obj)

\* the hget that comes after the seconds of a successful hset_with_ttl, and
\* nothing else, fails
C19_GoneAfterExpiry ==
    \A i, j \in DOMAIN Logged :
        /\ OkCall(Logged[i], "hset_with_ttl") /\ Ttl(Logged[i]) > 0
        /\ i < j /\ Reads(Logged[j], Logged[i])
        /\ Cardinality(Ticks(i, j)) = j - i - 1 /\ j - i - 1 >= Ttl(Logged[i])
        => Logged[j].res = Err(hget_err(Logged[j].call.id, Logged[j].call.arg.field))

\* C19: hset_with_ttl(bucket, field, v, ttl), for a ttl of at least one
\* second, followed immediately by hget(bucket, field) returns v; once the
\* seconds of the ttl have passed, hget(bucket, field) fails with the error of
\* a field that is not there.
C19_ReadBackThenExpire == C19_ReadBack /\ C19_GoneAfterExpiry

Bucket == Geo1[1]
Expiring == {i \in DOMAIN Logged : OkCall(Logged[i], "hset_with_ttl")}

\* the moment the expiry set by call number i of the log elapsed: its own
\* completion when the seconds are not positive, else the tick that completed
\* its seconds with no later expiry set before it
ElapsedAt(i) ==
    {e \in DOMAIN Logged :
        /\ \A j \in Expiring : ~(i < j /\ j < e)
        /\ IF Ttl(Logged[i]) <= 0 THEN e = i
           ELSE Logged[e] = Elapsed /\ i < e /\ Cardinality(Ticks(i, e + 1)) = Ttl(Logged[i])}

Wrote(r, field) == \E n \in DOMAIN r.done : r.done[n].cmd = "hset" /\ r.done[n].field = field

\* a field of the bucket that is there after an expiry elapsed was written by
\* a call that completed, or is still going on, after that moment
C20_WholeBucket ==
    \A i \in Expiring : \A e \in ElapsedAt(i) : \A field \in DOMAIN store[Bucket] :
        \/ \E n \in DOMAIN Logged : n > e /\ Wrote(Logged[n], field)
        \/ \E p \in Procs : Running(p) /\ Wrote(pc[p], field)

C20_OtherBuckets ==
    \A k \in Buckets \ {Bucket} : store[k] = StockedStore[k] /\ ttl[k] = 0

C20_Step ==
    /\ Completes /\ OkCall(last', "hset_with_ttl") =>
          IF Ttl(last') <= 0 THEN store'[Bucket] = EmptyHash /\ ttl'[Bucket] = 0
          ELSE store'[Bucket] = store[Bucket]
               /\ ttl'[Bucket] = IF store[Bucket] = EmptyHash THEN 0 ELSE Ttl(last')
    /\ Completes /\ last'.call.op = "hset" => ttl' = ttl

\* C20: the expiry hset_with_ttl sets is the bucket's: the call leaves the
\* bucket with its seconds to live, a plain hset leaves them as they are, and
\* when they have passed every field of the bucket is absent, whether written
\* by hset_with_ttl or by a plain hset before or after it, until written
\* again; the fields of the other buckets stay as they were.
C20_ExpiryIsPerBucket == [](C20_WholeBucket /\ C20_OtherBuckets) /\ [][C20_Step]_vars

\* a plain hset, an hset_with_ttl of 2 seconds and another plain hset put
\* three fields into the bucket; two seconds later the bucket is empty and
\* the price bucket still has its record
C20_Witness ==
    /\ Len(Logged) = 5 /\ ~failed
    /\ OkCall(Logged[1], "hset") /\ OkCall(Logged[2], "hset_with_ttl") /\ Ttl(Logged[2]) = 2
    /\ OkCall(Logged[3], "hset") /\ Logged[3].call.arg.field # Logged[1].call.arg.field
    /\ Logged[4] = Elapsed /\ Logged[5] = Elapsed
    /\ store[Bucket] = EmptyHash
    /\ store[get_price_kf(<<>>)[1]] # EmptyHash

ExpireFailed(r) ==
    r.call.op = "hset_with_ttl" /\ Len(r.fails) > 0 /\ r.fails[1].cmd = "expire"
WriteFailed(r) ==
    r.call.op = "hset_with_ttl" /\ Len(r.fails) > 0 /\ r.fails[1].cmd = "hset"

C21_Step ==
    /\ \A p \in Procs : Did(p) /\ pc'[p].call.op = "hset_with_ttl" =>
          Applied(Step(p)) /\ ttl' = ttl
    /\ Completes /\ ExpireFailed(last') =>
          /\ last'.res = Err(expire_err(last'.call.id))
          /\ Len(last'.done) = 1 /\ last'.done[1].cmd = "hset" /\ Len(last'.fails) = 1
          /\ store' = store /\ ttl' = ttl
    /\ Completes /\ WriteFailed(last') =>
          /\ last'.res \in {Err(ConnErr), Err(hset_err)}
          /\ last'.done = <<>> /\ Len(last'.fails) = 1
          /\ store' = store /\ ttl' = ttl

\* the hget right after an hset_with_ttl whose EXPIRE failed, before a second
\* has passed, returns the value the call wrote
C21_Readable ==
    \A i \in DOMAIN Logged :
        /\ ExpireFailed(Logged[i]) /\ Ticks(0, i) = {}
        /\ i + 1 \in DOMAIN Logged /\ Reads(Logged[i + 1], Logged[i])
        => Logged[i + 1].res = Ok(Logged[i].call.arg.obj)

\* C21: hset_with_ttl is two store calls: its HSET writes the field and
\* leaves the bucket's seconds as they are; when the EXPIRE then fails the
\* call returns the expire error, the failing step changes neither the store
\* nor any expiry, and the value is read back by hget; when the HSET fails
\* the call returns at once, with no EXPIRE attempted and nothing changed.
C21_WriteThenExpire == []C21_Readable /\ [][C21_Step]_vars

\* the first call wrote its value and failed in the EXPIRE; the hget after it
\* returned that value, and the bucket has no expiry
C21_Witness ==
    /\ Len(Logged) = 2 /\ ExpireFailed(Logged[1]) /\ Reads(Logged[2], Logged[1])
    /\ Logged[2].res = Ok(Logged[1].call.arg.obj)
    /\ Logged[1].call.arg.obj # Task1
    /\ ttl[Logged[1].call.id] = 0

\* the completed call e changed, or may have changed, the field of the key:
\* a successful hset or hdel of the field, or a successful del of the key
Touches(e, key, field) ==
    /\ e.res.ok /\ e.call.id = key
    /\ \/ e.call.op \in {"hset", "hdel"} /\ e.call.arg.field = field
       \/ e.call.op = "del"

\* call j is an hget, with no failed store call, of the field that the
\* successful hset i wrote, and no call between them touched the field
ReadsBack(i, j) ==
    /\ i < j
    /\ OkCall(Logged[i], "hset")
    /\ Logged[j].call.op = "hget" /\ Logged[j].fails = <<>>
    /\ Logged[j].call.id = Logged[i].call.id
    /\ Logged[j].call.arg.field = Logged[i].call.arg.field
    /\ \A k \in DOMAIN Logged :
          i < k /\ k < j => ~Touches(Logged[k], Logged[i].call.id, Logged[i].call.arg.field)

\* the round trip of the values that are finite in every float
C22_FiniteRoundTrip ==
    \A i, j \in DOMAIN Logged :
        ReadsBack(i, j) /\ Logged[i].call.arg.obj.bonus_amount.finite
        => Logged[j].res = Ok(Logged[i].call.arg.obj)

\* C22: a successful hset(bucket, field, v) followed by hget(bucket, field),
\* with no write or delete of the field in between, returns a value equal to
\* v, whatever the bucket, the field and the value; after a second hset of
\* the field that value is the one written last
C22_RoundTrip ==
    \A i, j \in DOMAIN Logged :
        ReadsBack(i, j) => Logged[j].res = Ok(Logged[i].call.arg.obj)

\* the buckets other than `key` are as they were
OthersKept(key) == \A k \in Buckets \ {key} : store'[k] = store[k]

\* a successful hdel removes its field and nothing else, and changes nothing
\* when the field is absent; a successful del empties its bucket and changes
\* nothing when the bucket is absent
C23_Step ==
    /\ Completes /\ last'.call.op = "hdel" /\ last'.fails = <<>> =>
          LET key == last'.call.id  field == last'.call.arg.field IN
          /\ last'.res = Ok(Unit)
          /\ DOMAIN store'[key] = DOMAIN store[key] \ {field}
          /\ \A g \in DOMAIN store'[key] : store'[key][g] = store[key][g]
          /\ OthersKept(key)
          /\ field \notin DOMAIN store[key] => store' = store
    /\ Completes /\ last'.call.op = "del" /\ last'.fails = <<>> =>
          LET key == last'.call.id IN
          /\ last'.res = Ok(Unit)
          /\ DOMAIN store'[key] = {}
          /\ OthersKept(key)
          /\ DOMAIN store[key] = {} => store' = store

\* call j is an hget, with no failed store call, of a field that the
\* successful hdel or del i removed and no call between them wrote
ReadsRemoved(i, j) ==
    /\ i < j
    /\ Logged[i].res.ok /\ Logged[i].call.op \in {"hdel", "del"}
    /\ Logged[j].call.op = "hget" /\ Logged[j].fails = <<>>
    /\ Logged[j].call.id = Logged[i].call.id
    /\ Logged[i].call.op = "hdel" => Logged[i].call.arg.field = Logged[j].call.arg.field
    /\ \A k \in DOMAIN Logged :
          i < k /\ k < j =>
              ~(OkCall(Logged[k], "hset") /\ Logged[k].call.id = Logged[j].call.id
                /\ Logged[k].call.arg.field = Logged[j].call.arg.field)

C23_Gone ==
    \A i, j \in DOMAIN Logged :
        ReadsRemoved(i, j) =>
            Logged[j].res = Err(hget_err(Logged[j].call.id, Logged[j].call.arg.field))

\* C23: hdel and del are idempotent: deleting an absent field or an absent
\* bucket succeeds and changes nothing; del removes every field of its
\* bucket; the hget of a field that either delete removed returns the error
\* of a missing field, never a value
C23_DeleteIdempotent == []C23_Gone /\ [][C23_Step]_vars

\* the delete of an absent bucket, the delete of a field of it, and the read
\* of that field
C23_Witness ==
    /\ Len(Logged) = 3
    /\ OkCall(Logged[1], "del") /\ OkCall(Logged[2], "hdel")
    /\ ReadsRemoved(1, 3) /\ ReadsRemoved(2, 3)
    /\ ~Logged[3].res.ok
    /\ store = EmptyStore

\* call j is an hgetall whose connection and HGETALL did not fail
Enumerates(j) ==
    /\ Logged[j].call.op = "hgetall"
    /\ Logged[j].res \notin {Err(ConnErr), Err(hgetall_err(Logged[j].call.id))}

\* the successful calls before call j wrote the bucket and never deleted from it
OnlyWrites(j) ==
    \A i \in 1..(j - 1) : Logged[i].res.ok => Logged[i].call.op \in {"hset", "hget", "hgetall"}

\* the fields the successful hset calls before call j touched
Touched(j) == {Logged[i].call.arg.field : i \in {n \in 1..(j - 1) : OkCall(Logged[n], "hset")}}

\* the value the last successful hset of the field before call j wrote
LastWritten(j, field) ==
    LET n == CHOOSE i \in 1..(j - 1) :
                 /\ OkCall(Logged[i], "hset") /\ Logged[i].call.arg.field = field
                 /\ \A k \in (i + 1)..(j - 1) :
                       ~(OkCall(Logged[k], "hset") /\ Logged[k].call.arg.field = field)
    IN Logged[n].call.arg.obj

\* the entries hold every one of the fields once, each with its last value
ExactlyLastWritten(j, entries) ==
    /\ Len(entries) = Cardinality(Touched(j))
    /\ \A f \in Touched(j) :
          \E n \in DOMAIN entries :
              entries[n] = <<f, LastWritten(j, f)>>

\* the enumeration of the values that are finite in every float
C24_FiniteEnumeration ==
    \A j \in DOMAIN Logged :
        /\ Enumerates(j) /\ OnlyWrites(j)
        /\ \A f \in Touched(j) : LastWritten(j, f).bonus_amount.finite
        => Logged[j].res.ok /\ ExactlyLastWritten(j, Logged[j].res.val)

\* C24: after successful hset calls that touched N distinct fields of a
\* bucket, with no delete, hgetall of the bucket returns exactly N entries,
\* one per field, each with the value written last to its field
C24_EnumerationExact ==
    \A j \in DOMAIN Logged :
        Enumerates(j) /\ OnlyWrites(j)
        => Logged[j].res.ok /\ ExactlyLastWritten(j, Logged[j].res.val)

\* some entry of the bucket is not a value of the type
Undecodable(key, ty) == \E f \in DOMAIN store[key] : ~from_str(ty, store[key][f]).ok

\* this step is the first store call, the hgetall, of a call of the enumerating caller
Enumerating ==
    /\ ncalls' = ncalls + 1
    /\ ~(Completes /\ last'.call.op = "hset")

GetPeersErr == <<"redis get peers failed err=">>

\* what an enumerating call returns when its hgetall fails
EnumerationErrors(call) ==
    IF call.op = "hgetall"
    THEN {Err(ConnErr), Err(hgetall_err(PeerBucket)), Err(decode_err)}
    ELSE {Err(GetPeersErr \o ConnErr), Err(GetPeersErr \o hgetall_err(PeerBucket)),
          Err(GetPeersErr \o decode_err)}

\* the hgetall of a bucket with an entry that does not decode ends its call
\* with an error, no entries, no broadcast and nothing deleted
C25_Step ==
    Enumerating /\ Undecodable(PeerBucket, "PeerChangedInfo") =>
        /\ Completes
        /\ last'.res \in EnumerationErrors(last'.call)
        /\ last'.done = <<>> /\ Len(last'.fails) = 1 /\ last'.fails[1].cmd = "hgetall"
        /\ store' = store /\ chan' = chan /\ view' = view

\* a call that returned the decode error completed no store call
C25_NothingDone ==
    \A i \in DOMAIN Logged :
        Logged[i].res \in {Err(decode_err), Err(GetPeersErr \o decode_err)} =>
            Logged[i].done = <<>>

\* C25: hgetall tolerates no partial result: when one stored entry of the
\* bucket does not deserialize the whole call fails and returns no entries;
\* so get_peers fails, and remove_all_peers on such a bucket returns an
\* error having broadcast no Disconnected event and deleted nothing
C25_NoPartialResult == []C25_NothingDone /\ [][C25_Step]_vars

\* the bucket holds two peers and a record of another type; get_peers and
\* remove_all_peers both returned the decode error
C25_Witness ==
    /\ Len(Logged) = 3
    /\ OkCall(Logged[1], "hset")
    /\ \E i, j \in {2, 3} :
          /\ Logged[i].call.op = "get_peers" /\ Logged[j].call.op = "remove_all_peers"
          /\ Logged[i].res = Err(GetPeersErr \o decode_err)
          /\ Logged[j].res = Err(GetPeersErr \o decode_err)
    /\ Cardinality(DOMAIN store[PeerBucket]) = 3

\* the bucket and the channel of the kind of a milestone operation
KindBucket(op) ==
    CASE op = "publish_first_time_provider" -> get_first_time_provider_kf(<<>>)[1]
      [] op = "publish_withdrawal_reward" -> get_withdrawal_reward_kf(<<>>)[1]
      [] op = "publish_completed_8_hours_ot" -> get_completed_8_hours_ot_kf(<<>>)[1]
      [] op = "publish_invite_friend_one_time" -> get_invite_friend_one_time_kf(<<>>)[1]
      [] op = "publish_completed_time_per_day" -> get_completed_time_per_day_kf(<<>>)[1]
KindChan(op) ==
    CASE op = "publish_first_time_provider" -> get_first_time_provider_chan
      [] op = "publish_withdrawal_reward" -> get_withdrawal_reward_chan
      [] op = "publish_completed_8_hours_ot" -> get_completed_8_hours_ot_chan
      [] op = "publish_invite_friend_one_time" -> get_invite_friend_one_time_chan
      [] op = "publish_completed_time_per_day" -> get_completed_time_per_day_chan
KindOps == MilestoneOps \cup {"publish_invite_friend_one_time"}

\* the call this step belongs to: the one it completed, or the one in progress
\* after it
Acts(call) ==
    \/ Completes /\ last'.call = call
    \/ \E p \in Procs : pc'[p] # pc[p] /\ Running(p)' /\ pc'[p].call = call

\* the step leaves every bucket but `key` and every channel but `chan_name`
FrameOf(key, chan_name) ==
    /\ \A k \in Buckets \ {key} : store'[k] = store[k]
    /\ \A c \in Channels \ {chan_name} : chan'[c] = chan[c] /\ view'[c] = view[c]

\* the step leaves every field of the bucket but `field`
FieldsKept(key, field) ==
    /\ DOMAIN store[key] \ {field} \subseteq DOMAIN store'[key]
    /\ DOMAIN store'[key] \subseteq DOMAIN store[key] \cup {field}
    /\ \A g \in DOMAIN store[key] \ {field} : store'[key][g] = store[key][g]

\* no two milestone kinds have the same bucket or the same channel
C26_Names ==
    \A a, b \in KindOps :
        a # b => KindBucket(a) # KindBucket(b) /\ KindChan(a) # KindChan(b)

\* every step of a recording milestone call changes at most the field
\* user_addr of its kind's bucket and what its kind's channel carries
C26_Frame ==
    \A call \in RetryCalls :
        call.op \in MilestoneOps /\ Acts(call) =>
            /\ FrameOf(KindBucket(call.op), KindChan(call.op))
            /\ FieldsKept(KindBucket(call.op), call.arg.user_addr)

\* its first store call writes the record, with nothing broadcast yet; when
\* it returns Ok it has written the record and then broadcast it
C26_Order ==
    /\ \A p \in Procs : Did(p) /\ pc'[p].call.op \in MilestoneOps =>
          LET c == Step(p)  call == pc'[p].call IN
          /\ Len(pc'[p].done) = 1
          /\ c.cmd = "hset" /\ c.key = KindBucket(call.op)
          /\ c.field = call.arg.user_addr /\ c.val = to_string_UserTask(call.arg)
          /\ Applied(c) /\ chan' = chan
    /\ Completes /\ last'.call.op \in MilestoneOps /\ last'.res.ok =>
          LET call == last'.call IN
          /\ Len(last'.done) = 2 /\ last'.fails = <<>>
          /\ last'.done[1].cmd = "hset" /\ last'.done[2].cmd = "publish"
          /\ last'.done[2].key = KindChan(call.op)
          /\ chan'[KindChan(call.op)] = to_string_UserTask(call.arg)
          /\ store' = store
          /\ store[KindBucket(call.op)][call.arg.user_addr] = to_string_UserTask(call.arg)

\* C26: publish_first_time_provider, publish_withdrawal_reward,
\* publish_completed_8_hours_ot and publish_completed_time_per_day each
\* overwrite the field user_addr in the bucket of their own kind and then
\* broadcast on the channel of their own kind; they leave the buckets of the
\* other kinds unchanged and broadcast on no other channel; no two kinds
\* share a bucket name or a channel name
C26_MilestonesApart == []C26_Names /\ [][C26_Frame /\ C26_Order]_vars

\* a second user's withdrawal reward recorded and announced next to the
\* first user's, the other milestone buckets and channels as they were
C26_Witness ==
    /\ last.call = Call("publish_withdrawal_reward", <<>>, [user_addr |-> <<"a2">>])
    /\ last.res.ok /\ ncalls = 1
    /\ DOMAIN store[get_withdrawal_reward_kf(<<>>)[1]] = {<<"a1">>, <<"a2">>}
    /\ chan[get_withdrawal_reward_chan] = to_string_UserTask([user_addr |-> <<"a2">>])
    /\ \A op \in KindOps \ {"publish_withdrawal_reward"} :
          /\ DOMAIN store[KindBucket(op)] = {<<"a1">>}
          /\ chan[KindChan(op)] = NoMsg

InviteOp(call) == call.op = "publish_invite_friend_one_time"

\* the one store call of publish_invite_friend_one_time is a publish on the
\* invite-friend channel: the step leaves the store and every other channel
\* as they were, and the channel too when the publish fails
C27_Step ==
    /\ \A p \in Procs : Running(p)' => ~InviteOp(pc'[p].call)
    /\ Completes /\ InviteOp(last'.call) =>
          LET cmds == last'.done \o last'.fails IN
          /\ Len(cmds) = 1 /\ cmds[1].cmd = "publish"
          /\ cmds[1].key = get_invite_friend_one_time_chan
          /\ cmds[1].val = to_string_UserTask(last'.call.arg)
          /\ store' = store
          /\ FrameOf(get_invite_friend_one_time_kf(<<>>)[1], get_invite_friend_one_time_chan)
          /\ last'.res.ok <=> Len(last'.done) = 1
          /\ last'.res.ok => chan'[get_invite_friend_one_time_chan] = cmds[1].val
          /\ ~last'.res.ok => chan' = chan

\* C27: publish_invite_friend_one_time is event-only: it broadcasts one event
\* on the invite-friend channel and writes no record, leaving every bucket,
\* invite_friend_one_time included, unchanged
C27_EventOnly == [][C27_Step]_vars

\* the invitation of a second user announced, the store as earlier calls left it
C27_Witness ==
    /\ InviteOp(last.call) /\ last.res.ok /\ ncalls = 1
    /\ last.call.arg = [user_addr |-> <<"a2">>]
    /\ chan[get_invite_friend_one_time_chan] = to_string_UserTask(last.call.arg)
    /\ store = StockedStore
    /\ <<"a2">> \notin DOMAIN store[get_invite_friend_one_time_kf(<<>>)[1]]

\* the bucket a remove-all operation deletes and the call that enumerates it
RemovedBucket(op) ==
    CASE op = "remove_all_proxy_accs" -> get_proxy_acc_kf(<<>>)[1]
      [] op = "remove_all_withdrawal_reward" -> get_withdrawal_reward_kf(<<>>)[1]
RemoveOps == {"remove_all_proxy_accs", "remove_all_withdrawal_reward"}
EnumerationOf(op) ==
    CASE op = "remove_all_proxy_accs" -> Call("get_proxy_accs", <<>>, <<>>)
      [] op = "remove_all_withdrawal_reward" ->
            Call("hgetall", get_withdrawal_reward_kf(<<>>)[1], [ty |-> "UserTask"])

\* a remove-all call is one del of its bucket: when it succeeds the bucket is
\* empty, when it fails the store is as it was; it broadcasts nothing and
\* leaves every other bucket; the enumeration made right after it is empty
C28_Step ==
    /\ \A p \in Procs : Running(p)' => pc'[p].call.op \notin RemoveOps
    /\ Completes /\ last'.call.op \in RemoveOps =>
          LET cmds == last'.done \o last'.fails  key == RemovedBucket(last'.call.op) IN
          /\ Len(cmds) = 1 /\ cmds[1].cmd = "del" /\ cmds[1].key = key
          /\ chan' = chan /\ view' = view
          /\ \A k \in Buckets \ {key} : store'[k] = store[k]
          /\ last'.res.ok <=> Len(last'.done) = 1
          /\ last'.res.ok => store'[key] = EmptyHash
          /\ ~last'.res.ok => store' = store
    /\ /\ Completes /\ last.call.op \in RemoveOps /\ last.res.ok
       /\ last'.call = EnumerationOf(last.call.op) /\ last'.fails = <<>>
       => last'.res = Ok(<<>>)

\* C28: remove_all_proxy_accs and remove_all_withdrawal_reward delete their
\* whole bucket (proxy_acc, withdrawal_reward), so that the matching
\* enumeration is empty afterwards; they broadcast no event on any channel
\* and leave every other bucket unchanged
C28_RemoveAll == [][C28_Step]_vars

\* the stocked proxy accounts removed and then enumerated: none, nothing
\* announced, the prices still there
C28_Witness ==
    /\ ncalls = 2 /\ ~failed
    /\ last.call = EnumerationOf("remove_all_proxy_accs") /\ last.res = Ok(<<>>)
    /\ store[get_proxy_acc_kf(<<>>)[1]] = EmptyHash
    /\ store[get_price_kf(<<>>)[1]] # EmptyHash
    /\ \A c \in Channels : chan[c] = NoMsg

\* a step of a call that the same caller made, with the same argument, and
\* saw return Ok just before leaves the store as that first execution left it
C29_Step ==
    \A call \in TwiceCalls :
        Acts(call) /\ last.call = call /\ last.res.ok => store' = store

\* C29: retrying a whole publish call is idempotent on the store: for every
\* publish variant (peer Connected and Disconnected, price, proxy account
\* Created, Updated, Deleted and RefreshAll, each milestone) and for the
\* remove-all operations, the call executed twice in succession with the
\* same argument and no call in between leaves the store as the call
\* executed once leaves it; so does zsetall when no call runs beside it
C29_RetryIdempotent == [][C29_Step]_vars

\* an account updated twice in succession: the record is the one the first
\* update wrote over the account's earlier password
C29_Witness ==
    /\ Len(Logged) = 2 /\ Logged[1].call = Logged[2].call
    /\ Logged[1].res.ok /\ Logged[2].res.ok
    /\ Logged[2].call.op = "publish_proxy_acc" /\ Logged[2].call.arg.tag = "Updated"
    /\ Len(Logged[2].done) = 2
    /\ store[get_proxy_acc_kf(<<>>)[1]] =
          (<<"x1">> :> to_string_ProxyAccData(ProxyAcc(<<"x1">>, <<"pw2">>)))
    /\ store[get_price_kf(<<>>)[1]] # EmptyHash

\* the hset or hdel of the call failed
MutationFailed(r) ==
    /\ MutatingPublish(r.call)
    /\ \E n \in DOMAIN r.fails : r.fails[n].cmd \in {"hset", "hdel"}

\* a publish call whose mutation fails ends with that store call: it returns
\* an error, has completed no store call and attempted no broadcast, and the
\* store, the channels and the subscribers are as they were
C30_Step ==
    /\ \A p \in Procs : Running(p)' => ~MutationFailed(pc'[p])
    /\ Completes /\ MutationFailed(last') =>
          /\ ~last'.res.ok
          /\ last'.done = <<>> /\ Len(last'.fails) = 1
          /\ store' = store /\ chan' = chan /\ view' = view

\* C30: when the mutation phase of a publish operation fails (publish_peer,
\* publish_peer_price, publish_proxy_acc Created, Updated and Deleted, every
\* milestone publish that writes a record) the call returns an error without
\* attempting the broadcast: no event of the call appears on the channel and
\* the store is unchanged by the call
C30_NoBroadcastAfterFailedMutation == [][C30_Step]_vars

\* the removal of an account failed at its hdel: the account is still there
\* and nothing was announced
C30_Witness ==
    /\ MutationFailed(last) /\ ncalls = 1
    /\ last.call.op = "publish_proxy_acc" /\ last.call.arg.tag = "Deleted"
    /\ last.res = Err(hdel_err(get_proxy_acc_kf(<<>>)[1], last.call.arg.arg))
    /\ store = StockedStore
    /\ \A c \in Channels : chan[c] = NoMsg

Disconnects(call) == call.op = "publish_peer" /\ call.arg.tag = "Disconnected"

\* the hdel of publish_peer(node, Disconnected(p)) leaves the bucket as it was
\* when p has no record, with nothing broadcast yet; the call whose store
\* calls did not fail returns Ok having broadcast the Disconnected event,
\* whether p had a record or not
C31_Step ==
    /\ \A q \in Procs : Did(q) /\ Disconnects(pc'[q].call) =>
          LET c == Step(q)
              kf == get_peers_kf(pc'[q].call.id, pc'[q].call.arg.info.ip_u32) IN
          /\ Len(pc'[q].done) = 1
          /\ c.cmd = "hdel" /\ c.key = kf[1] /\ c.field = kf[2]
          /\ kf[2] \notin DOMAIN store[kf[1]] => store' = store
          /\ Applied(c) /\ chan' = chan
    /\ Completes /\ Disconnects(last'.call) /\ last'.fails = <<>> =>
          /\ last'.res = Ok(Unit)
          /\ Len(last'.done) = 2 /\ last'.done[2].cmd = "publish"
          /\ last'.done[2].key = get_peers_chan(last'.call.id)
          /\ chan'[get_peers_chan(last'.call.id)] = to_string_PeerChanged(last'.call.arg)
          /\ store' = store

\* C31: publish_peer(node, Disconnected(p)) for a peer p that has no record
\* in the node's bucket still succeeds and still broadcasts the Disconnected
\* event, with the bucket unchanged: a Disconnected event does not imply that
\* a record of the peer existed, and a peer can get several Disconnected
\* events with no Connected in between
C31_DisconnectedWithoutRecord == [][C31_Step]_vars

\* on a store that never held a peer, the same peer announced Disconnected
\* twice in succession, both calls Ok
C31_Witness ==
    /\ Len(Logged) = 2 /\ Logged[1].call = Logged[2].call
    /\ Disconnects(Logged[2].call)
    /\ Logged[1].res.ok /\ Logged[2].res.ok
    /\ Len(Published(Logged[1].done)) = 1 /\ Len(Published(Logged[2].done)) = 1
    /\ store = EmptyStore
    /\ chan[get_peers_chan(Logged[2].call.id)] = to_string_PeerChanged(Logged[2].call.arg)

\* the bucket that the enumeration of the call's kind of record reads: the
\* key of the hgetall of get_peers, get_peers_price or get_proxy_accs
EnumeratedBucket(call) ==
    CASE call.op \in {"publish_peer", "get_peers", "remove_all_peers"} ->
            Script(Call("get_peers", call.id, <<>>))[1].key
      [] call.op \in {"publish_peer_price", "get_peers_price"} ->
            Script(Call("get_peers_price", <<>>, <<>>))[1].key
      [] call.op \in {"publish_proxy_acc", "get_proxy_accs", "remove_all_proxy_accs"} ->
            Script(Call("get_proxy_accs", <<>>, <<>>))[1].key

OnBucket(c) == c.cmd \in {"hset", "hdel", "hgetall", "del"}

\* the bucket of a key function is the same for every field argument
C32_Names ==
    /\ \A n \in Nodes : \A ip \in IPs : get_peers_kf(n, ip)[1] = get_peers_kf(n, 0)[1]
    /\ \A a \in UserAddrs : get_price_kf(a)[1] = get_price_kf(<<>>)[1]
    /\ \A id \in AccIds : get_proxy_acc_kf(id)[1] = get_proxy_acc_kf(<<>>)[1]

\* every store call on a bucket that a publish, an enumeration or a
\* remove-all made names the bucket its kind's enumeration reads; a record
\* written is in that bucket, and a remove-all leaves that bucket empty
C32_Step ==
    /\ \A q \in Procs : Did(q) =>
          /\ OnBucket(Step(q)) => Step(q).key = EnumeratedBucket(pc'[q].call)
          /\ Step(q).cmd = "hset" =>
                /\ Step(q).field \in DOMAIN store'[EnumeratedBucket(pc'[q].call)]
                /\ store'[EnumeratedBucket(pc'[q].call)][Step(q).field] = Step(q).val
    /\ Completes =>
          /\ \A c \in CmdsOf(last') : OnBucket(c) => c.key = EnumeratedBucket(last'.call)
          /\ last'.call.op \in {"remove_all_peers", "remove_all_proxy_accs"} /\ last'.res.ok
                => store'[EnumeratedBucket(last'.call)] = EmptyHash

\* C32: the bucket name a key function returns does not depend on its field
\* argument: get_peers_kf(id, 0) names the bucket of get_peers_kf(id, ip) for
\* every ip, get_price_kf("") and get_proxy_acc_kf("") the bucket of every
\* address and id; so the bucket that get_peers, get_peers_price and
\* get_proxy_accs enumerate and the remove-all operations delete is the one
\* every matching publish call writes to
C32_OneBucketPerKind == []C32_Names /\ [][C32_Step]_vars

\* on a store that was empty, the account of the second id created and then
\* enumerated
C32_Witness ==
    /\ ncalls = 2 /\ ~failed
    /\ last.call.op = "get_proxy_accs" /\ last.res.ok
    /\ Len(last.res.val) = 1 /\ last.res.val[1].id = <<"x2">>
    /\ DOMAIN store[get_proxy_acc_kf(<<>>)[1]] = {<<"x2">>}

\* C33: the conversions between the domain and the wire payload types are
\* inverse to each other: a ProxyPayload converted to ProtoProxyPayload and
\* back has its origin_topic, stream_id, duration and payload, a
\* StreamPayload converted to ProtoStreamPayload and back has its variant
\* (ProxyPayload, VPNPayload, HealthCheck) and its fields; so from_bytes of
\* the bytes of to_vec returns the payload, and to_vec of it the same bytes
C33_ConversionsInverse ==
    /\ wire.at = "proto" /\ wire.sent.kind = "ProxyPayload" =>
          /\ wire.val.origin_topic = wire.sent.v.origin.origin_topic
          /\ wire.val.stream_id = wire.sent.v.origin.stream_id
          /\ wire.val.duration = wire.sent.v.origin.duration
          /\ wire.val.payload = wire.sent.v.payload
    /\ wire.at = "proto" /\ wire.sent.kind = "StreamPayload" => wire.val.payload # None
    /\ wire.at = "received" => wire.val = Done(wire.sent.v)
    /\ wire.at = "resent" => wire.val = to_vec(wire.sent.v)

\* a proxy payload with every field set was encoded, read back and encoded again
C33_Witness ==
    /\ wire.at = "resent"
    /\ wire.sent.v.origin = [origin_topic |-> <<99, 95>>, stream_id |-> 4, duration |-> 300]
    /\ wire.sent.v.payload = <<16, 200>>
    /\ wire.val = <<10, 2, 99, 95, 16, 4, 26, 2, 16, 200, 32, 172, 2>>

====
